---- MODULE Spec2Model ----
(***************************************************************************)
(* State-machine model of the incident analyzer / SOP generator:          *)
(*   - DataValidator            (src/src/data_validation/validator.py)    *)
(*   - SOPGenerator             (src/src/sop_generation/generator.py)     *)
(*   - IncidentCategorizer      (src/src/categorization/categorizer.py)   *)
(*   - ResolutionFinder         (src/src/rag/resolution_finder.py)        *)
(*   - the persisted stores     (src/src/database/mongodb.py,             *)
(*                               src/src/db/mongodb_handler.py,           *)
(*                               src/src/csv_importer.py)                 *)
(*   - the lazy singletons of the web application (src/web_app.py)        *)
(* Python strings are modelled as sequences of one-character strings, so  *)
(* that strip, lower, split and substring search are computed, not assumed.*)
(* Each component has its own specification; the variables of the other   *)
(* components stay at their idle values.                                   *)
(***************************************************************************)
EXTENDS Integers, Sequences, FiniteSets, TLC

VARIABLES
    \* DataValidator
    v_config,       \* the validator's constructor arguments
    v_incident,     \* argument of validate_incident
    v_result,       \* its return value (NoResult before the call)
    v_batch,        \* argument of validate_incidents (the dicts are mutated in place)
    v_valid,        \* returned list of valid incidents
    v_invalid,      \* returned list of invalid incidents
    v_pc,           \* the pending call, "done"/"batch_done" after it
    \* SOPGenerator
    s_min_incidents,\* the generator's constructor argument
    s_incidents,    \* the cluster passed to generate_sop
    s_analysis,     \* the cluster analysis passed to generate_sop
    s_sop,          \* the returned document (None when refused)
    s_sentences,    \* the sentences the resolution text was written from
    s_resolutions,  \* argument of _extract_resolution_steps
    s_steps,        \* its return value
    s_steps_again,  \* the return value of a second call with the same argument
    s_text,         \* the argument of a call of _convert_to_imperative
    s_imperative,   \* what that call returned
    s_pc,           \* the pending call
    \* IncidentCategorizer
    c_batch,        \* argument of categorize_incidents
    c_labels,       \* the labels HDBSCAN returned for the batch
    c_incidents,    \* self.incidents
    c_embeddings,   \* self.embeddings (normalized)
    c_clusters,     \* the returned dict: label -> list of incidents
    c_analysis,     \* cluster id -> what analyze_cluster returned or raised
    c_pc,           \* the pending call
    c_config,       \* min_cluster_size and min_samples of the categorizer
    \* ResolutionFinder
    r_use_chromadb, \* self.use_chromadb (with a ChromaDB client when TRUE)
    r_incoming,     \* argument of load_knowledge_base
    r_knowledge_base,   \* self.knowledge_base
    r_embeddings_cache, \* self.embeddings_cache
    r_collection,   \* the documents of the ChromaDB collection
    r_ties,         \* how the sort of this build orders equal similarities
    r_query,        \* the arguments of the search
    r_results,      \* what find_similar_incidents returned
    r_results_higher,   \* what it returned for the same query under a higher floor
    r_suggestion,   \* what suggest_resolution returned
    r_pc,           \* the pending call
    r_kb_file,      \* the incidents in data/knowledge_base.json
    r_added,        \* the last add_to_knowledge_base: the incident and the finder before
    \* the persisted stores
    st_target,      \* the store this run works on
    st_connected,   \* MongoDBHandler.is_connected()
    st_incidents,   \* MongoDBClient's incidents collection (unique index on number)
    st_knowledge_base,  \* MongoDBHandler's collection (unique sparse index on number)
    st_kb_file,     \* the list in the JSON knowledge-base file
    st_offered,     \* incidents offered so far; also what datetime.now() reads
    st_last,        \* the last operation: what was offered, the store before, the return
    \* the web application's lazy singletons
    w_categorizer,  \* the global categorizer: 0 is None, k the k-th instance constructed
    w_resolution_finder,    \* the global resolution_finder, likewise
    w_cat_loads,    \* IncidentCategorizer constructions (embedding model loads)
    w_finder_loads, \* ResolutionFinder constructions
    w_route,        \* per request thread: the route it serves
    w_pc,           \* per request thread: where it is in the handler
    w_local,        \* per request thread: the instance it has constructed, not yet assigned
    w_served,       \* per request thread: requests served so far
    w_responses,    \* the responses sent: route, status, instance handed to the handler
    \* one in-memory ResolutionFinder used by a rebuilding and a searching thread
    i_knowledge_base,   \* self.knowledge_base
    i_embeddings_cache, \* self.embeddings_cache
    i_loaded,       \* the list the index was built from before the rebuild
    i_incoming,     \* the list load_knowledge_base is rebuilding the index from
    i_load_pc,      \* where the rebuilding thread is in load_knowledge_base
    i_ties,         \* how np.argsort orders equal similarities
    i_query,        \* the arguments of the search
    i_search,       \* the searching thread: its position and its local variables
    i_outcome,      \* what find_similar_incidents returned or raised
    \* one run of the orchestrator's pipeline
    p_source,       \* "servicenow" (run_full_pipeline) or "mongodb" (analyze_from_mongodb)
    p_clusterer,    \* min_cluster_size and min_samples of the orchestrator's categorizer
    p_incoming,     \* what the source holds
    p_incidents,    \* the incidents fetched
    p_valid,        \* the valid incidents
    p_invalid,      \* the invalid incidents
    p_clusters,     \* cluster id -> incidents
    p_steps,        \* the steps that have returned
    p_result,       \* the dictionary the run returns
    p_pc,           \* the step the run is at
    \* one in-memory ResolutionFinder through a sequence of calls
    k_knowledge_base,   \* self.knowledge_base
    k_embeddings_cache, \* self.embeddings_cache
    k_kb_file,      \* the knowledge-base file
    k_calls,        \* the calls made so far, by name
    k_found,        \* what the last find_similar_incidents returned or raised
    \* one request to /analyze_single
    a_data,         \* the JSON body of the request
    a_response,     \* the response of the route
    a_pc,           \* "request" before the handler has run, "answered" after
    \* one call of CSVIncidentImporter.import_from_csv
    x_validator,    \* self.validator: a validator profile, or None
    x_headers,      \* csv_reader.fieldnames
    x_rows,         \* the data rows, each the values under the headers
    x_field_mapping,    \* the argument field_mapping: a mapping, or None
    x_skip_invalid, \* the argument skip_invalid
    x_mapping,      \* the mapping in use: header -> incident field
    x_row_number,   \* row_number
    x_imported,     \* self.imported_incidents
    x_errors,       \* self.import_errors
    x_warnings,     \* self.import_warnings
    x_returned,     \* how the call ended
    x_pc            \* "open", "rows", "returned"

varsValidator == <<v_config, v_incident, v_result, v_batch, v_valid, v_invalid, v_pc>>

varsSOP == <<s_min_incidents, s_incidents, s_analysis, s_sop, s_sentences, s_resolutions,
             s_steps, s_steps_again, s_text, s_imperative, s_pc>>

----------------------------------------------------------------------------
(* Python str primitives over sequences of characters                       *)

\* dict.get(key) of an absent key
None == <<"$None">>

Whitespace == {" ", "\t", "\n", "\r"}

UpperLetters == <<"A","B","C","D","E","F","G","H","I","J","K","L","M","N","O","P","Q","R","S","T","U","V","W","X","Y","Z">>

LowerLetters == <<"a","b","c","d","e","f","g","h","i","j","k","l","m","n","o","p","q","r","s","t","u","v","w","x","y","z">>

LowerChar(c) ==
    IF \E i \in 1..26 : UpperLetters[i] = c
    THEN LowerLetters[CHOOSE i \in 1..26 : UpperLetters[i] = c]
    ELSE c

UpperChar(c) ==
    IF \E i \in 1..26 : LowerLetters[i] = c
    THEN UpperLetters[CHOOSE i \in 1..26 : LowerLetters[i] = c]
    ELSE c

str_lower(s) == [i \in 1..Len(s) |-> LowerChar(s[i])]

RECURSIVE str_lstrip(_, _)
str_lstrip(s, chars) ==
    IF s # <<>> /\ Head(s) \in chars THEN str_lstrip(Tail(s), chars) ELSE s

RECURSIVE str_rstrip(_, _)
str_rstrip(s, chars) ==
    IF s # <<>> /\ s[Len(s)] \in chars
    THEN str_rstrip(SubSeq(s, 1, Len(s) - 1), chars)
    ELSE s

str_strip(s) == str_rstrip(str_lstrip(s, Whitespace), Whitespace)

str_startswith(s, p) == Len(p) <= Len(s) /\ SubSeq(s, 1, Len(p)) = p

\* the Python test  sub in s
str_contains(s, sub) ==
    \E i \in 1..(Len(s) - Len(sub) + 1) : SubSeq(s, i, i + Len(sub) - 1) = sub

\* dict.get(key, default)
dict_get(d, key, default) ==
    IF key \notin DOMAIN d THEN default
    ELSE IF d[key] = None THEN default ELSE d[key]

\* Python truthiness of a str-or-None value
truthy(v) == v # None /\ v # <<>>

py_or_mut(a, b) == IF b # None /\ b # <<>> THEN b ELSE a

\* the Python expression  a or b
py_or(a, b) == IF truthy(a) THEN a ELSE b

\* the elements of a sequence
Range(s) == {s[i] : i \in DOMAIN s}

\* the sequences over S of length at most n
SeqUpTo(S, n) == UNION {[1..k -> S] : k \in 0..n}

varsCategorizer == <<c_batch, c_labels, c_incidents, c_embeddings, c_clusters, c_analysis, c_pc,
                     c_config>>

varsRag == <<r_use_chromadb, r_incoming, r_knowledge_base, r_embeddings_cache, r_collection,
             r_ties, r_query, r_results, r_results_higher, r_suggestion, r_pc,
            r_kb_file, r_added>>

varsStore == <<st_target, st_connected, st_incidents, st_knowledge_base, st_kb_file,
               st_offered, st_last>>

varsWeb == <<w_categorizer, w_resolution_finder, w_cat_loads, w_finder_loads, w_route, w_pc,
             w_local, w_served, w_responses>>

varsIndex == <<i_knowledge_base, i_embeddings_cache, i_loaded, i_incoming, i_load_pc, i_ties,
               i_query, i_search, i_outcome>>

varsPipeline == <<p_source, p_clusterer, p_incoming, p_incidents, p_valid, p_invalid,
                  p_clusters, p_steps, p_result, p_pc>>

varsKb == <<k_knowledge_base, k_embeddings_cache, k_kb_file, k_calls, k_found>>

varsSingle == <<a_data, a_response, a_pc>>

varsCsv == <<x_validator, x_headers, x_rows, x_field_mapping, x_skip_invalid, x_mapping,
             x_row_number, x_imported, x_errors, x_warnings, x_returned, x_pc>>

----------------------------------------------------------------------------
(* The idle state of each component                                         *)

\* generate_sop returned None
NoDocument == [returned |-> "None"]

ValidatorIdle ==
    /\ v_config = None
    /\ v_incident = None
    /\ v_result = None
    /\ v_batch = <<>>
    /\ v_valid = <<>>
    /\ v_invalid = <<>>
    /\ v_pc = "idle"

NoClusterer == [min_cluster_size |-> 0, min_samples |-> 0]

CategorizerIdle ==
    /\ c_config = NoClusterer
    /\ c_batch = <<>>
    /\ c_labels = <<>>
    /\ c_incidents = <<>>
    /\ c_embeddings = <<>>
    /\ c_clusters = <<>>
    /\ c_analysis = <<>>
    /\ c_pc = "idle"

NoAdd == [added |-> FALSE]

RagIdle ==
    /\ r_use_chromadb = FALSE
    /\ r_incoming = <<>>
    /\ r_knowledge_base = <<>>
    /\ r_embeddings_cache = <<>>
    /\ r_collection = <<>>
    /\ r_ties = "idle"
    /\ r_query = None
    /\ r_results = <<>>
    /\ r_results_higher = <<>>
    /\ r_suggestion = None
    /\ r_pc = "idle"
    /\ r_kb_file = <<>>
    /\ r_added = NoAdd

NoOperation == [op |-> "none"]

StoreIdle ==
    /\ st_target = "idle"
    /\ st_connected = FALSE
    /\ st_incidents = <<>>
    /\ st_knowledge_base = <<>>
    /\ st_kb_file = <<>>
    /\ st_offered = 0
    /\ st_last = NoOperation

\* the request threads of the development server (threaded by default)
Threads == {1, 2}

WebIdle ==
    /\ w_categorizer = 0
    /\ w_resolution_finder = 0
    /\ w_cat_loads = 0
    /\ w_finder_loads = 0
    /\ w_route = [t \in Threads |-> "none"]
    /\ w_pc = [t \in Threads |-> "idle"]
    /\ w_local = [t \in Threads |-> 0]
    /\ w_served = [t \in Threads |-> 0]
    /\ w_responses = {}

NoSearch == [pc |-> "idle"]

NoOutcome == [returned |-> FALSE]

IndexIdle ==
    /\ i_knowledge_base = <<>>
    /\ i_embeddings_cache = <<>>
    /\ i_loaded = <<>>
    /\ i_incoming = <<>>
    /\ i_load_pc = "idle"
    /\ i_ties = "idle"
    /\ i_query = None
    /\ i_search = NoSearch
    /\ i_outcome = NoOutcome

NoRun == [status |-> "none"]

PipelineIdle ==
    /\ p_source = "idle"
    /\ p_clusterer = NoClusterer
    /\ p_incoming = <<>>
    /\ p_incidents = <<>>
    /\ p_valid = <<>>
    /\ p_invalid = <<>>
    /\ p_clusters = <<>>
    /\ p_steps = <<>>
    /\ p_result = NoRun
    /\ p_pc = "idle"

KbIdle ==
    /\ k_knowledge_base = <<>>
    /\ k_embeddings_cache = <<>>
    /\ k_kb_file = <<>>
    /\ k_calls = <<"idle">>
    /\ k_found = NoOutcome

NoResponse == [status |-> 0]

SingleIdle ==
    /\ a_data = [idle |-> TRUE]
    /\ a_response = NoResponse
    /\ a_pc = "idle"

NoImport == [ended |-> "not yet"]

\* self.validator is None
NoValidator == [validator |-> "None"]

\* the argument field_mapping is None
NoFieldMapping == [given |-> FALSE]

CsvIdle ==
    /\ x_validator = NoValidator
    /\ x_headers = <<>>
    /\ x_rows = <<>>
    /\ x_field_mapping = NoFieldMapping
    /\ x_skip_invalid = TRUE
    /\ x_mapping = {}
    /\ x_row_number = 0
    /\ x_imported = <<>>
    /\ x_errors = <<>>
    /\ x_warnings = <<>>
    /\ x_returned = NoImport
    /\ x_pc = "idle"

SOPIdle ==
    /\ s_min_incidents = 0
    /\ s_incidents = <<>>
    /\ s_analysis = None
    /\ s_sop = NoDocument
    /\ s_sentences = <<>>
    /\ s_resolutions = <<>>
    /\ s_steps = <<>>
    /\ s_steps_again = <<>>
    /\ s_text = <<>>
    /\ s_imperative = <<>>
    /\ s_pc = "idle"

----------------------------------------------------------------------------
(* DataValidator                                                            *)

min_description_length == 20

min_resolution_length == 30

\* the two constructor profiles in the repository
TestConfig ==
    [required_fields |-> <<"number", "short_description", "resolution_notes">>,
     min_description_length |-> min_description_length,
     min_resolution_length |-> min_resolution_length]

WebConfig ==
    [required_fields |-> <<"number", "short_description">>,
     min_description_length |-> min_description_length,
     min_resolution_length |-> min_resolution_length]

placeholders ==
    <<<<"l","o","r","e","m"," ","i","p","s","u","m">>,
      <<"t","e","s","t"," ","t","e","s","t">>,
      <<"p","l","a","c","e","h","o","l","d","e","r">>,
      <<"s","a","m","p","l","e"," ","t","e","x","t">>,
      <<"t","b","d">>,
      <<"t","o"," ","b","e"," ","d","e","t","e","r","m","i","n","e","d">>,
      <<"x","x","x">>,
      <<"n","/","a">>>>

text_fields == <<"description", "short_description", "resolution_notes", "close_notes">>

invalid_categories ==
    {<<"n","o","n","e">>, <<"o","t","h","e","r">>, <<"u","n","k","n","o","w","n">>, <<"n","/","a">>, <<"t","b","d">>}

_check_required_fields(config, incident) ==
    SelectSeq(config.required_fields,
              LAMBDA f : incident[f] = None \/ str_strip(incident[f]) = <<>>)

_has_placeholder_content(incident) ==
    \E i \in DOMAIN text_fields : \E j \in DOMAIN placeholders :
        str_contains(str_lower(dict_get(incident, text_fields[i], <<>>)), placeholders[j])

\* mutant: the denylist is compared without lower-casing
_has_valid_category_mut(incident) ==
    LET category == incident.category IN
    IF ~truthy(category) \/ str_strip(category) = <<>> THEN FALSE
    ELSE IF category \in invalid_categories THEN FALSE
    ELSE TRUE

_has_valid_category(incident) ==
    LET category == incident.category IN
    IF ~truthy(category) \/ str_strip(category) = <<>> THEN FALSE
    ELSE IF str_lower(category) \in invalid_categories THEN FALSE
    ELSE TRUE

ValidationError(type, severity, fields, chars) ==
    [type |-> type, severity |-> severity, fields |-> fields, chars |-> chars]

validate_incident(config, incident) ==
    LET missing_fields == _check_required_fields(config, incident)
        description == py_or(dict_get(incident, "description", <<>>), <<>>)
        resolution == py_or(py_or(dict_get(incident, "resolution_notes", <<>>),
                                  dict_get(incident, "close_notes", <<>>)), <<>>)
        e1 == IF missing_fields # <<>>
              THEN <<ValidationError("missing_fields", "critical", missing_fields, 0)>>
              ELSE <<>>
        e2 == IF Len(str_strip(description)) < config.min_description_length
              THEN <<ValidationError("insufficient_description", "high", <<>>, Len(description))>>
              ELSE <<>>
        e3 == IF Len(str_strip(resolution)) < config.min_resolution_length
              THEN <<ValidationError("insufficient_resolution", "high", <<>>, Len(resolution))>>
              ELSE <<>>
        e4 == IF _has_placeholder_content(incident)
              THEN <<ValidationError("placeholder_content", "medium", <<>>, 0)>>
              ELSE <<>>
        e5 == IF ~_has_valid_category(incident)
              THEN <<ValidationError("invalid_category", "medium", <<>>, 0)>>
              ELSE <<>>
        errors == e1 \o e2 \o e3 \o e4 \o e5
    IN [is_valid |-> Len(errors) = 0,
        errors |-> errors,
        incident_number |-> dict_get(incident, "number", <<"U","N","K","N","O","W","N">>)]

\* mutant: the else is lost, an invalid incident is appended to both lists
RECURSIVE validate_loop_mut(_, _, _, _, _)
validate_loop_mut(config, incidents, k, valid, invalid) ==
    IF k > Len(incidents) THEN [valid |-> valid, invalid |-> invalid]
    ELSE LET incident == incidents[k]
             validation_result == validate_incident(config, incident)
         IN IF validation_result.is_valid
            THEN validate_loop_mut(config, incidents, k + 1, Append(valid, incident), invalid)
            ELSE validate_loop_mut(config, incidents, k + 1, Append(valid, incident),
                    Append(invalid,
                           [incident EXCEPT !._validation_errors = validation_result.errors]))

\* the loop of validate_incidents over incidents[k..], with the lists built so far;
\* an invalid dict gets the key _validation_errors
RECURSIVE validate_loop(_, _, _, _, _)
validate_loop(config, incidents, k, valid, invalid) ==
    IF k > Len(incidents) THEN [valid |-> valid, invalid |-> invalid]
    ELSE LET incident == incidents[k]
             validation_result == validate_incident(config, incident)
         IN IF validation_result.is_valid
            THEN validate_loop(config, incidents, k + 1, Append(valid, incident), invalid)
            ELSE validate_loop(config, incidents, k + 1, valid,
                    Append(invalid,
                           [incident EXCEPT !._validation_errors = validation_result.errors]))

validate_incidents(config, incidents) == validate_loop(config, incidents, 1, <<>>, <<>>)

(* inputs of the validator specification *)

NUM_INC1 == <<"I","N","C","0","0","0","1">>

SD_ok == <<"E","m","a","i","l"," ","a","c","c","e","s","s"," ","i","s","s","u","e">>

SD_placeholder == <<"T","e","s","t"," ","t","e","s","t">>

D_long == <<"U","s","e","r"," ","c","a","n","n","o","t"," ","a","c","c","e","s","s"," ","e","m","a","i","l">>

D_short == <<"S","h","o","r","t">>

\* 21 characters, 17 after strip
D_padded == <<" "," ","S","h","o","r","t"," ","d","e","s","c","r","i","p","t","i","o","n"," "," ">>

D_placeholder == <<"L","o","r","e","m"," ","I","p","s","u","m"," ","d","o","l","o","r"," ","s","i","t"," ","a","m","e","t">>

R_long == <<"R","e","s","e","t"," ","p","a","s","s","w","o","r","d"," ","a","n","d"," ","c","l","e","a","r","e","d"," ","t","h","e"," ","c","a","c","h","e">>

R_short == <<"F","i","x","e","d">>

R_blank == <<" "," "," ">>

R_tbd == <<"R","o","o","t"," ","c","a","u","s","e"," ","T","B","D",","," ","w","o","r","k","a","r","o","u","n","d"," ","a","p","p","l","i","e","d">>

CN_long == <<"R","e","s","t","a","r","t","e","d"," ","t","h","e"," ","m","a","i","l"," ","s","e","r","v","i","c","e"," ","a","n","d"," ","v","e","r","i","f","i","e","d">>

CAT_email == <<"E","m","a","i","l">>

CAT_unknown == <<"U","n","k","n","o","w","n">>

CAT_blank == <<" ">>

CAT_padded == <<" ","n","o","n","e">>

Incident(number, short_description, description, resolution_notes, close_notes, category) ==
    [oid |-> 0,
     number |-> number,
     short_description |-> short_description,
     description |-> description,
     resolution_notes |-> resolution_notes,
     close_notes |-> close_notes,
     category |-> category,
     _validation_errors |-> <<>>]   \* no such key: the empty list

\* the incidents validate_incident is applied to
IncidentSet ==
    {Incident(n, sd, d, r, cn, c) :
        n \in {NUM_INC1, None},
        sd \in {SD_ok, <<>>, SD_placeholder},
        d \in {D_long, D_short, D_padded, D_placeholder, None},
        r \in {R_long, R_short, R_blank, R_tbd, None},
        cn \in {CN_long, None},
        c \in {CAT_email, CAT_unknown, CAT_blank, CAT_padded, None}}

\* the incidents batches are made of: one valid, the others failing one or more checks
BatchPool ==
    {Incident(NUM_INC1, SD_ok, D_long, R_long, None, CAT_email),
     Incident(NUM_INC1, SD_ok, D_long, None, CN_long, CAT_email),
     Incident(None, SD_ok, D_long, R_long, None, CAT_email),
     Incident(NUM_INC1, SD_ok, D_short, R_short, None, CAT_email),
     Incident(NUM_INC1, SD_placeholder, D_placeholder, R_tbd, None, CAT_unknown)}

MaxBatch == 3

\* a batch is a list of distinct dict objects: oid is the object's identity
Batches ==
    {[i \in DOMAIN b |-> [b[i] EXCEPT !.oid = i]] : b \in SeqUpTo(BatchPool, MaxBatch)}

NoResult == [is_valid |-> FALSE, errors |-> <<>>, incident_number |-> None]

InitValidator ==
    /\ v_config \in {TestConfig, WebConfig}
    /\ \/ /\ v_pc = "validate_incident"
          /\ v_incident \in IncidentSet
          /\ v_batch = <<>>
       \/ /\ v_pc = "validate_incidents"
          /\ v_incident = Incident(None, None, None, None, None, None)
          /\ v_batch \in Batches
    /\ v_result = NoResult
    /\ v_valid = <<>>
    /\ v_invalid = <<>>
    /\ SOPIdle
    /\ CategorizerIdle
    /\ RagIdle
    /\ StoreIdle
    /\ WebIdle
    /\ IndexIdle
    /\ PipelineIdle
    /\ KbIdle
    /\ SingleIdle
    /\ CsvIdle

\* a call of DataValidator.validate_incident(v_incident)
ValidateIncident ==
    /\ v_pc = "validate_incident"
    /\ v_result' = validate_incident(v_config, v_incident)
    /\ v_pc' = "done"
    /\ UNCHANGED <<v_config, v_incident, v_batch, v_valid, v_invalid>>
    /\ UNCHANGED <<varsSOP, varsCategorizer, varsRag, varsStore, varsWeb, varsIndex, varsPipeline, varsKb, varsSingle, varsCsv>>

\* a call of DataValidator.validate_incidents(v_batch); the lists hold the caller's
\* dict objects, so the caller's batch shows the attached _validation_errors too
ValidateIncidents ==
    /\ v_pc = "validate_incidents"
    /\ \E r \in {validate_incidents(v_config, v_batch)} :
         /\ v_valid' = r.valid
         /\ v_invalid' = r.invalid
         /\ v_batch' = [i \in DOMAIN v_batch |->
                          IF \E j \in DOMAIN r.invalid : r.invalid[j].oid = i
                          THEN r.invalid[CHOOSE j \in DOMAIN r.invalid : r.invalid[j].oid = i]
                          ELSE v_batch[i]]
    /\ v_pc' = "batch_done"
    /\ UNCHANGED <<v_config, v_incident, v_result>>
    /\ UNCHANGED <<varsSOP, varsCategorizer, varsRag, varsStore, varsWeb, varsIndex, varsPipeline, varsKb, varsSingle, varsCsv>>

----------------------------------------------------------------------------
(* Claims about the validator                                               *)

\* the fields of a dict that validate_incidents does not write
C1_Content(inc) == [inc EXCEPT !._validation_errors = <<>>]

\* C1: validate_incidents partitions the batch: the two lists together are as long as
\* the batch, every input record is in exactly one of them, every invalid record
\* carries a non-empty _validation_errors list and no valid record has an error.
C1_PartitionComplete ==
    v_pc = "batch_done" =>
        /\ Len(v_valid) + Len(v_invalid) = Len(v_batch)
        /\ \A i \in DOMAIN v_batch :
              Cardinality({j \in DOMAIN v_valid : v_valid[j].oid = i})
                + Cardinality({j \in DOMAIN v_invalid : v_invalid[j].oid = i}) = 1
        /\ \A j \in DOMAIN v_invalid :
              /\ Len(v_invalid[j]._validation_errors) >= 1
              /\ v_invalid[j]._validation_errors
                    = validate_incident(v_config, C1_Content(v_invalid[j])).errors
              /\ v_invalid[j] = v_batch[v_invalid[j].oid]
        /\ \A j \in DOMAIN v_valid :
              /\ v_valid[j]._validation_errors = <<>>
              /\ validate_incident(v_config, v_valid[j]).errors = <<>>
              /\ v_valid[j] = v_batch[v_valid[j].oid]

\* a batch of three was split into a non-empty valid and a non-empty invalid list
C1_Witness ==
    /\ v_pc = "batch_done"
    /\ Len(v_batch) = 3
    /\ v_valid # <<>>
    /\ v_invalid # <<>>

\* the checks as the contract words them, computed without the validator's helpers
C2_IsBlank(v) == v = None \/ \A i \in DOMAIN v : v[i] \in Whitespace

C2_StrippedLen(v) ==
    IF C2_IsBlank(v) THEN 0
    ELSE LET first == CHOOSE i \in DOMAIN v :
                          v[i] \notin Whitespace /\ \A k \in 1..(i - 1) : v[k] \in Whitespace
             last == CHOOSE i \in DOMAIN v :
                          v[i] \notin Whitespace /\ \A k \in (i + 1)..Len(v) : v[k] \in Whitespace
         IN last - first + 1

C2_Occurs(text, word) ==
    text # None /\ \E i \in 1..Len(text) :
        /\ i + Len(word) - 1 <= Len(text)
        /\ \A k \in DOMAIN word : LowerChar(text[i + k - 1]) = word[k]

C2_ResolutionSource(inc) ==
    IF inc.resolution_notes # None /\ inc.resolution_notes # <<>> THEN inc.resolution_notes
    ELSE inc.close_notes

C2_Denylisted(category) ==
    \E w \in invalid_categories :
        /\ Len(w) = Len(category)
        /\ \A k \in DOMAIN w : LowerChar(category[k]) = w[k]

C2_Count(errors, type) == Cardinality({i \in DOMAIN errors : errors[i].type = type})

\* C2: is_valid holds exactly when the error list is empty, and each error type occurs
\* (once) exactly when its own check fails, whatever the other checks say.
C2_ErrorsMatchChecks ==
    v_pc = "done" =>
        LET errors == v_result.errors
            fails(type) == C2_Count(errors, type) = 1
            passes(type) == C2_Count(errors, type) = 0
            iff(type, failed) == IF failed THEN fails(type) ELSE passes(type)
        IN /\ v_result.is_valid <=> (errors = <<>>)
           /\ iff("missing_fields",
                  \E f \in Range(v_config.required_fields) : C2_IsBlank(v_incident[f]))
           /\ iff("insufficient_description",
                  C2_StrippedLen(v_incident.description) < v_config.min_description_length)
           /\ iff("insufficient_resolution",
                  C2_StrippedLen(C2_ResolutionSource(v_incident)) < v_config.min_resolution_length)
           /\ iff("placeholder_content",
                  \E f \in Range(text_fields) : \E p \in Range(placeholders) :
                      C2_Occurs(v_incident[f], p))
           /\ iff("invalid_category",
                  C2_IsBlank(v_incident.category) \/ C2_Denylisted(v_incident.category))
           /\ \A i \in DOMAIN errors :
                  errors[i].type \in {"missing_fields", "insufficient_description",
                      "insufficient_resolution", "placeholder_content", "invalid_category"}

\* one check alone failed: a valid incident but for its denylisted category
C2_Witness ==
    /\ v_pc = "done"
    /\ Len(v_result.errors) = 1
    /\ v_result.errors[1].type = "invalid_category"
    /\ v_incident.category = CAT_unknown

\* validate_incident reported insufficient_resolution
C15_ResolutionError == C2_Count(v_result.errors, "insufficient_resolution") > 0

\* the field has at least min_resolution_length characters once stripped
C15_Sufficient(field) == C2_StrippedLen(field) >= v_config.min_resolution_length

\* C15 as stated: the incident passes the resolution-length check whenever
\* resolution_notes or close_notes has a stripped length of at least
\* min_resolution_length, and gets insufficient_resolution only when neither has.
C15_EitherFieldSuffices ==
    v_pc = "done" =>
        (C15_ResolutionError <=>
            ~(C15_Sufficient(v_incident.resolution_notes)
                 \/ C15_Sufficient(v_incident.close_notes)))

\* C15 amended: the check reads one field only, resolution_notes when it is present and
\* not the empty string, close_notes otherwise; the incident passes exactly when that
\* field has a stripped length of at least min_resolution_length.
C15_FirstNonEmptyFieldDecides ==
    v_pc = "done" =>
        (C15_ResolutionError <=> ~C15_Sufficient(C2_ResolutionSource(v_incident)))

\* short resolution notes were checked although the close notes are long enough
C15_Witness ==
    /\ v_pc = "done"
    /\ v_incident.resolution_notes = R_short
    /\ v_incident.close_notes = CN_long
    /\ C15_ResolutionError

----------------------------------------------------------------------------
(* SOPGenerator                                                             *)

\* index of the first occurrence of sub in s at or after i, 0 when there is none
str_find(s, sub, i) ==
    LET hits == {k \in i..(Len(s) - Len(sub) + 1) : SubSeq(s, k, k + Len(sub) - 1) = sub}
    IN IF hits = {} THEN 0 ELSE CHOOSE k \in hits : \A j \in hits : k <= j

\* str.split(sep)
RECURSIVE str_split(_, _)
str_split(s, sep) ==
    LET split_at(i) ==
            IF i = 0 THEN <<s>>
            ELSE <<SubSeq(s, 1, i - 1)>> \o str_split(SubSeq(s, i + Len(sep), Len(s)), sep)
    IN split_at(str_find(s, sep, 1))

\* str.split() without arguments: the words between runs of whitespace
RECURSIVE str_split_ws(_)
str_split_ws(s) ==
    LET word_end(t) == IF \E k \in DOMAIN t : t[k] \in Whitespace
                       THEN CHOOSE k \in DOMAIN t :
                               t[k] \in Whitespace /\ \A j \in 1..(k - 1) : t[j] \notin Whitespace
                       ELSE Len(t) + 1
        cut(t, n) == <<SubSeq(t, 1, n - 1)>> \o str_split_ws(SubSeq(t, n, Len(t)))
        words_of(t) == IF t = <<>> THEN <<>> ELSE cut(t, word_end(t))
    IN words_of(str_lstrip(s, Whitespace))

\* sep.join(parts)
RECURSIVE str_join(_, _)
str_join(parts, sep) ==
    IF parts = <<>> THEN <<>>
    ELSE IF Len(parts) = 1 THEN parts[1]
    ELSE parts[1] \o sep \o str_join(Tail(parts), sep)

\* the characters the regular expression \b treats as part of a word
IsWordChar(c) ==
    \/ \E i \in 1..26 : LowerLetters[i] = c \/ UpperLetters[i] = c
    \/ c \in {"0", "1", "2", "3", "4", "5", "6", "7", "8", "9", "_"}

\* past tense -> imperative
verb_conversions ==
    {<<<<"r","e","s","t","a","r","t","e","d">>, <<"R","e","s","t","a","r","t">>>>,
     <<<<"r","e","s","e","t">>, <<"R","e","s","e","t">>>>,
     <<<<"c","h","e","c","k","e","d">>, <<"C","h","e","c","k">>>>,
     <<<<"v","e","r","i","f","i","e","d">>, <<"V","e","r","i","f","y">>>>,
     <<<<"u","p","d","a","t","e","d">>, <<"U","p","d","a","t","e">>>>,
     <<<<"c","o","n","f","i","g","u","r","e","d">>, <<"C","o","n","f","i","g","u","r","e">>>>,
     <<<<"i","n","s","t","a","l","l","e","d">>, <<"I","n","s","t","a","l","l">>>>,
     <<<<"r","e","m","o","v","e","d">>, <<"R","e","m","o","v","e">>>>,
     <<<<"d","i","s","a","b","l","e","d">>, <<"D","i","s","a","b","l","e">>>>,
     <<<<"e","n","a","b","l","e","d">>, <<"E","n","a","b","l","e">>>>,
     <<<<"r","e","p","l","a","c","e","d">>, <<"R","e","p","l","a","c","e">>>>,
     <<<<"t","e","s","t","e","d">>, <<"T","e","s","t">>>>,
     <<<<"r","a","n">>, <<"R","u","n">>>>,
     <<<<"o","p","e","n","e","d">>, <<"O","p","e","n">>>>,
     <<<<"c","l","o","s","e","d">>, <<"C","l","o","s","e">>>>,
     <<<<"c","l","e","a","r","e","d">>, <<"C","l","e","a","r">>>>,
     <<<<"r","e","c","r","e","a","t","e","d">>, <<"R","e","c","r","e","a","t","e">>>>,
     <<<<"i","n","c","r","e","a","s","e","d">>, <<"I","n","c","r","e","a","s","e">>>>,
     <<<<"d","e","c","r","e","a","s","e","d">>, <<"D","e","c","r","e","a","s","e">>>>,
     <<<<"s","e","t">>, <<"S","e","t">>>>,
     <<<<"c","h","a","n","g","e","d">>, <<"C","h","a","n","g","e">>>>,
     <<<<"a","d","d","e","d">>, <<"A","d","d">>>>,
     <<<<"d","e","l","e","t","e","d">>, <<"D","e","l","e","t","e">>>>,
     <<<<"m","o","d","i","f","i","e","d">>, <<"M","o","d","i","f","y">>>>,
     <<<<"r","e","v","i","e","w","e","d">>, <<"R","e","v","i","e","w">>>>,
     <<<<"r","e","b","u","i","l","t">>, <<"R","e","b","u","i","l","d">>>>,
     <<<<"r","e","c","o","n","f","i","g","u","r","e","d">>, <<"R","e","c","o","n","f","i","g","u","r","e">>>>,
     <<<<"r","e","p","a","i","r","e","d">>, <<"R","e","p","a","i","r">>>>,
     <<<<"f","i","x","e","d">>, <<"F","i","x">>>>,
     <<<<"r","e","s","o","l","v","e","d">>, <<"R","e","s","o","l","v","e">>>>,
     <<<<"e","n","s","u","r","e","d">>, <<"E","n","s","u","r","e">>>>,
     <<<<"r","e","b","o","o","t","e","d">>, <<"R","e","b","o","o","t">>>>,
     <<<<"d","o","w","n","l","o","a","d","e","d">>, <<"D","o","w","n","l","o","a","d">>>>,
     <<<<"u","p","l","o","a","d","e","d">>, <<"U","p","l","o","a","d">>>>,
     <<<<"a","d","j","u","s","t","e","d">>, <<"A","d","j","u","s","t">>>>,
     <<<<"d","i","a","g","n","o","s","e","d">>, <<"D","i","a","g","n","o","s","e">>>>,
     <<<<"i","d","e","n","t","i","f","i","e","d">>, <<"I","d","e","n","t","i","f","y">>>>,
     <<<<"c","o","n","f","i","r","m","e","d">>, <<"C","o","n","f","i","r","m">>>>,
     <<<<"a","d","v","i","s","e","d">>, <<"A","d","v","i","s","e">>>>,
     <<<<"i","m","p","l","e","m","e","n","t","e","d">>, <<"I","m","p","l","e","m","e","n","t">>>>,
     <<<<"c","r","e","a","t","e","d">>, <<"C","r","e","a","t","e">>>>,
     <<<<"s","e","n","t">>, <<"S","e","n","d">>>>,
     <<<<"u","n","l","o","c","k","e","d">>, <<"U","n","l","o","c","k">>>>,
     <<<<"l","o","g","g","e","d">>, <<"L","o","g">>>>,
     <<<<"c","o","n","n","e","c","t","e","d">>, <<"C","o","n","n","e","c","t">>>>,
     <<<<"d","i","s","c","o","n","n","e","c","t","e","d">>, <<"D","i","s","c","o","n","n","e","c","t">>>>,
     <<<<"f","o","u","n","d">>, <<"F","i","n","d">>>>,
     <<<<"l","o","c","a","t","e","d">>, <<"L","o","c","a","t","e">>>>,
     <<<<"n","a","v","i","g","a","t","e","d">>, <<"N","a","v","i","g","a","t","e">>>>,
     <<<<"s","e","l","e","c","t","e","d">>, <<"S","e","l","e","c","t">>>>,
     <<<<"c","l","i","c","k","e","d">>, <<"C","l","i","c","k">>>>,
     <<<<"e","n","t","e","r","e","d">>, <<"E","n","t","e","r">>>>,
     <<<<"t","y","p","e","d">>, <<"T","y","p","e">>>>,
     <<<<"e","x","e","c","u","t","e","d">>, <<"E","x","e","c","u","t","e">>>>,
     <<<<"p","e","r","f","o","r","m","e","d">>, <<"P","e","r","f","o","r","m">>>>,
     <<<<"a","p","p","l","i","e","d">>, <<"A","p","p","l","y">>>>,
     <<<<"a","c","t","i","v","a","t","e","d">>, <<"A","c","t","i","v","a","t","e">>>>,
     <<<<"d","e","a","c","t","i","v","a","t","e","d">>, <<"D","e","a","c","t","i","v","a","t","e">>>>}

\* re.match(r'\b' + past + r'\b', lowered): the text starts with the word past
re_match_word(past, lowered) ==
    /\ str_startswith(lowered, past)
    /\ Len(lowered) = Len(past) \/ ~IsWordChar(lowered[Len(past) + 1])

_convert_to_imperative_mut(text0) == str_strip(text0)

_convert_to_imperative(text0) ==
    LET \* the closing punctuation
        punctuate(stripped) ==
            IF stripped # <<>> /\ stripped[Len(stripped)] \notin {".", "!", "?"}
            THEN stripped \o <<".">>
            ELSE stripped
        capitalize(converted) ==
            IF converted # <<>> THEN <<UpperChar(converted[1])>> \o Tail(converted)
            ELSE converted
        \* the first word looked up in the table, else the table's verbs tried as a prefix
        replace_verb(text, words, first_word_lower, lowered) ==
            IF \E vc \in verb_conversions : vc[1] = first_word_lower
            THEN str_join(<<(CHOOSE vc \in verb_conversions : vc[1] = first_word_lower)[2]>>
                             \o Tail(words), <<" ">>)
            ELSE IF \E vc \in verb_conversions : re_match_word(vc[1], lowered)
            THEN (CHOOSE vc \in verb_conversions : re_match_word(vc[1], lowered))[2]
                    \o SubSeq(text, Len((CHOOSE vc \in verb_conversions :
                                            re_match_word(vc[1], lowered))[1]) + 1, Len(text))
            ELSE text
        convert(text, words) ==
            IF words = <<>> THEN text
            ELSE punctuate(str_rstrip(capitalize(
                     replace_verb(text, words,
                                  str_rstrip(str_lower(words[1]), {".", ",", ";", ":"}),
                                  str_lower(text))), {"."}))
        of_stripped(text) == convert(text, str_split_ws(text))
    IN of_stripped(str_strip(text0))

step_prefixes ==
    {<<"1", ".">>, <<"2", ".">>, <<"3", ".">>, <<"4", ".">>, <<"5", ".">>, <<"6", ".">>,
     <<"7", ".">>, <<"8", ".">>, <<"9", ".">>, <<"0", ".">>,
     <<"-">>, <<"*">>, <<"(bullet)">>, <<"(square)">>, <<"(circle)">>}

marker_chars ==
    {"0", "1", "2", "3", "4", "5", "6", "7", "8", "9", ".", "-", "*",
     "(bullet)", "(square)", "(circle)", ")", " ", "\t"}

\* the concatenation of a sequence of sequences
RECURSIVE Flatten(_)
Flatten(ss) == IF ss = <<>> THEN <<>> ELSE Head(ss) \o Flatten(Tail(ss))

\* the numbered or bulleted lines of one resolution text, as imperative steps
structured_steps(resolution) ==
    LET of_step(line, step) ==
            IF (\E p \in step_prefixes : str_startswith(line, p)) /\ Len(step) > 10
            THEN <<_convert_to_imperative(step)>>
            ELSE <<>>
        of_line(line) == of_step(line, str_lstrip(line, marker_chars))
        of_lines(lines) == Flatten([i \in DOMAIN lines |-> of_line(str_strip(lines[i]))])
    IN of_lines(str_split(resolution, <<"\n">>))

sentence_delimiters == <<<<".", " ">>, <<".", "\n">>, <<";", " ">>, <<";", "\n">>>>

\* the sentences of one resolution text longer than 15 characters, as imperative steps
sentence_steps(resolution) ==
    LET keep(imperative_step) == IF imperative_step # <<>> THEN <<imperative_step>> ELSE <<>>
        of_sentence(sentence) ==
            IF sentence # <<>> /\ Len(sentence) > 15
            THEN keep(_convert_to_imperative(sentence))
            ELSE <<>>
        steps_of(sentences) ==
            Flatten([i \in DOMAIN sentences |->
                        of_sentence(str_rstrip(str_strip(sentences[i]), {"."}))])
        stripped(parts) ==
            SelectSeq([i \in DOMAIN parts |-> str_strip(parts[i])], LAMBDA s : s # <<>>)
        \* the first delimiter of the list that occurs in the text splits it
        split_on(found) ==
            IF found = {} THEN <<>>
            ELSE stripped(str_split(resolution,
                     sentence_delimiters[CHOOSE d \in found : \A e \in found : d <= e]))
        or_whole(split) == IF split = <<>> THEN <<resolution>> ELSE split
    IN steps_of(or_whole(split_on({d \in DOMAIN sentence_delimiters :
                                      str_find(resolution, sentence_delimiters[d], 1) # 0})))

fallback_steps(resolution_text) ==
    <<<<"I","d","e","n","t","i","f","y"," ","a","n","d"," ","v","e","r","i","f","y"," ","t","h","e"," ","s","y","m","p","t","o","m","s"," ","o","f"," ","t","h","e"," ","r","e","p","o","r","t","e","d"," ","i","s","s","u","e">>,
      <<"F","o","l","l","o","w"," ","t","h","e","s","e"," ","r","e","s","o","l","u","t","i","o","n"," ","s","t","e","p","s",":"," ">> \o _convert_to_imperative(resolution_text),
      <<"T","e","s","t"," ","t","h","e"," ","s","o","l","u","t","i","o","n"," ","t","o"," ","c","o","n","f","i","r","m"," ","t","h","e"," ","i","s","s","u","e"," ","i","s"," ","r","e","s","o","l","v","e","d">>,
      <<"V","e","r","i","f","y"," ","a","l","l"," ","a","f","f","e","c","t","e","d"," ","s","y","s","t","e","m","s","/","s","e","r","v","i","c","e","s"," ","a","r","e"," ","f","u","n","c","t","i","o","n","i","n","g"," ","n","o","r","m","a","l","l","y">>,
      <<"D","o","c","u","m","e","n","t"," ","t","h","e"," ","r","e","s","o","l","u","t","i","o","n"," ","a","n","d"," ","c","l","o","s","e"," ","t","h","e"," ","i","n","c","i","d","e","n","t"," ","t","i","c","k","e","t">>>>

dedup_key_length == 50

step_cap == 20

\* step.lower()[:50]
dedup_pattern(step) == SubSeq(str_lower(step), 1, IF Len(step) < dedup_key_length
                                                  THEN Len(step) ELSE dedup_key_length)

unique_steps_mut(all_steps, seen_patterns) == all_steps

\* the first step of each dedup pattern, in order
RECURSIVE unique_steps(_, _)
unique_steps(all_steps, seen_patterns) ==
    IF all_steps = <<>> THEN <<>>
    ELSE IF dedup_pattern(Head(all_steps)) \in seen_patterns
    THEN unique_steps(Tail(all_steps), seen_patterns)
    ELSE <<Head(all_steps)>>
            \o unique_steps(Tail(all_steps), seen_patterns \cup {dedup_pattern(Head(all_steps))})

candidate_steps_mut(resolutions) ==
    LET structured == Flatten([i \in DOMAIN resolutions |->
                                  structured_steps(resolutions[i].resolution)])
    IN IF structured # <<>> THEN structured
       ELSE Flatten([i \in DOMAIN resolutions |-> sentence_steps(resolutions[i].resolution)])

\* all_steps before deduplication
candidate_steps(resolutions) ==
    LET from_sentences(sentences) ==
            IF sentences # <<>> THEN sentences
            ELSE IF resolutions # <<>> /\ resolutions[1].resolution # <<>>
                    /\ Len(resolutions[1].resolution) > 20
            THEN fallback_steps(resolutions[1].resolution)
            ELSE <<>>
        from_structured(structured) ==
            IF structured # <<>> THEN structured
            ELSE from_sentences(Flatten([i \in DOMAIN resolutions |->
                                            sentence_steps(resolutions[i].resolution)]))
    IN from_structured(Flatten([i \in DOMAIN resolutions |->
                                   structured_steps(resolutions[i].resolution)]))

_extract_resolution_steps(resolutions) ==
    LET first_steps(unique) ==
            SubSeq(unique, 1, IF Len(unique) < step_cap THEN Len(unique) ELSE step_cap)
    IN first_steps(unique_steps(candidate_steps(resolutions), {}))

\* max(categories.items(), key=lambda x: x[1])[0]: the first entry of the highest count
primary_category(analysis) ==
    LET categories == analysis.common_categories IN
    IF categories = <<>> THEN <<"G","e","n","e","r","a","l">>
    ELSE categories[CHOOSE i \in DOMAIN categories :
                       /\ \A j \in DOMAIN categories : categories[j][2] <= categories[i][2]
                       /\ \A j \in 1..(i - 1) : categories[j][2] < categories[i][2]][1]

\* the resolutions collected from the cluster: resolution_notes, else close_notes
RECURSIVE collect_resolutions(_)
collect_resolutions(incidents) ==
    IF incidents = <<>> THEN <<>>
    ELSE LET incident == Head(incidents)
             resolution == py_or(dict_get(incident, "resolution_notes", <<>>),
                                 dict_get(incident, "close_notes", <<>>))
         IN (IF truthy(resolution)
             THEN <<[incident_number |-> incident.number, resolution |-> resolution]>>
             ELSE <<>>) \o collect_resolutions(Tail(incidents))

_extract_sop_components(incidents, analysis) ==
    [problems |-> {incidents[i].short_description : i \in
                      {j \in DOMAIN incidents : truthy(incidents[j].short_description)}},
     resolution_steps |-> _extract_resolution_steps(collect_resolutions(incidents)),
     category |-> primary_category(analysis),
     incident_count |-> Len(incidents),
     related_incidents |-> [i \in 1..(IF Len(incidents) < 10 THEN Len(incidents) ELSE 10)
                               |-> incidents[i].number]]

\* the rendered document, section by section
_generate_markdown_sop(cluster_id, data) ==
    [sop_id |-> cluster_id,
     category |-> data.category,
     incident_count |-> data.incident_count,
     problems |-> data.problems,
     resolution_steps |-> data.resolution_steps,
     no_steps_notice |-> (data.resolution_steps = <<>>),
     related_incidents |-> data.related_incidents]

generate_sop(min_incidents, cluster_id, incidents, analysis) ==
    IF Len(incidents) < min_incidents THEN NoDocument
    ELSE _generate_markdown_sop(cluster_id, _extract_sop_components(incidents, analysis))

default_min_incidents == 3

web_min_incidents == 1

T_quota == <<"C","h","e","c","k","e","d"," ","m","a","i","l","b","o","x"," ","q","u","o","t","a","."," ","I","n","c","r","e","a","s","e","d"," ","l","i","m","i","t"," ","t","o"," ","5","0","G","B",".">>

T_password == <<"R","e","s","e","t"," ","p","a","s","s","w","o","r","d","."," ","C","l","e","a","r","e","d"," ","c","a","c","h","e","."," ","V","e","r","i","f","i","e","d"," ","a","c","c","e","s","s",".">>

T_fixed == <<"F","i","x","e","d">>

T_router == <<"R","e","b","o","o","t","e","d"," ","t","h","e"," ","r","o","u","t","e","r">>

T_service == <<"R","e","s","t","a","r","t","e","d"," ","t","h","e"," ","m","a","i","l"," ","s","e","r","v","i","c","e"," ","a","n","d"," ","v","e","r","i","f","i","e","d"," ","a","c","c","e","s","s">>

T_numbered == <<"1","."," ","R","e","s","t","a","r","t","e","d"," ","t","h","e"," ","m","a","i","l"," ","s","e","r","v","i","c","e","\n","2","."," ","V","e","r","i","f","i","e","d"," ","u","s","e","r"," ","a","c","c","e","s","s"," ","w","o","r","k","s">>

T_bullets == <<"-"," ","r","e","s","t","a","r","t","e","d"," ","t","h","e"," ","m","a","i","l"," ","s","e","r","v","i","c","e","\n","*"," ","C","l","e","a","r","e","d"," ","c","a","c","h","e">>

T_alike == <<"R","e","s","t","a","r","t","e","d"," ","t","h","e"," ","a","p","p","l","i","c","a","t","i","o","n"," ","s","e","r","v","e","r"," ","a","n","d"," ","v","e","r","i","f","i","e","d"," ","t","h","a","t"," ","a","l","l"," ","u","s","e","r","s"," ","c","a","n"," ","l","o","g"," ","i","n","."," ","R","e","s","t","a","r","t","e","d"," ","t","h","e"," ","a","p","p","l","i","c","a","t","i","o","n"," ","s","e","r","v","e","r"," ","a","n","d"," ","v","e","r","i","f","i","e","d"," ","t","h","a","t"," ","a","l","l"," ","u","s","e","r","s"," ","c","a","n"," ","l","o","g"," ","i","n"," ","a","g","a","i","n",";"," ","C","l","o","s","e","d"," ","t","h","e"," ","t","i","c","k","e","t",".">>

\* the text analyze_single puts in place of a missing resolution
T_pending == <<"R","e","s","o","l","u","t","i","o","n"," ","p","e","n","d","i","n","g","."," ","U","s","e"," ","'","A","I"," ","S","u","g","g","e","s","t"," ","R","e","s","o","l","u","t","i","o","n","'"," ","f","e","a","t","u","r","e"," ","o","r"," ","e","n","t","e","r"," ","r","e","s","o","l","u","t","i","o","n"," ","m","a","n","u","a","l","l","y"," ","f","o","r"," ","c","o","m","p","l","e","t","e"," ","S","O","P",".">>

T_ten == <<"9","."," ","R","e","s","t","a","r","t","e","d"," ","t","h","e"," ","m","a","i","l"," ","s","e","r","v","i","c","e","\n","1","0","."," ","V","e","r","i","f","i","e","d"," ","u","s","e","r"," ","a","c","c","e","s","s"," ","w","o","r","k","s">>

T_digits == <<"1","."," ","5"," ","s","e","r","v","e","r","s"," ","w","e","r","e"," ","r","e","b","o","o","t","e","d">>

FixedTexts ==
    {T_quota, T_password, T_fixed, T_router, T_service, T_numbered, T_bullets, T_alike,
     T_pending, T_ten, T_digits}

\* the cluster members generate_sop is given
ClusterPool ==
    {Incident(NUM_INC1, SD_ok, D_long, T_quota, None, CAT_email),
     Incident(NUM_INC1, SD_ok, D_long, T_password, None, CAT_email),
     Incident(NUM_INC1, SD_ok, D_long, T_fixed, None, CAT_email),
     Incident(NUM_INC1, SD_ok, D_long, T_numbered, None, CAT_email),
     Incident(NUM_INC1, SD_ok, D_long, <<>>, T_service, CAT_email),
     Incident(NUM_INC1, SD_ok, D_long, None, None, CAT_email)}

MaxCluster == 3

Analyses ==
    {[common_categories |-> <<>>],
     [common_categories |-> <<<<CAT_email, 2>>, <<CAT_unknown, 2>>>>]}

\* past-tense sentences, each with the imperative it stands for
SentencePairs ==
    {<<<<"C","h","e","c","k","e","d"," ","m","a","i","l","b","o","x"," ","q","u","o","t","a">>, <<"C","h","e","c","k"," ","m","a","i","l","b","o","x"," ","q","u","o","t","a">>>>,
     <<<<"I","n","c","r","e","a","s","e","d"," ","l","i","m","i","t"," ","t","o"," ","5","0","G","B">>, <<"I","n","c","r","e","a","s","e"," ","l","i","m","i","t"," ","t","o"," ","5","0","G","B">>>>,
     <<<<"R","e","s","e","t"," ","p","a","s","s","w","o","r","d">>, <<"R","e","s","e","t"," ","p","a","s","s","w","o","r","d">>>>,
     <<<<"C","l","e","a","r","e","d"," ","c","a","c","h","e">>, <<"C","l","e","a","r"," ","c","a","c","h","e">>>>,
     <<<<"V","e","r","i","f","i","e","d"," ","a","c","c","e","s","s">>, <<"V","e","r","i","f","y"," ","a","c","c","e","s","s">>>>,
     <<<<"R","e","s","t","a","r","t","e","d"," ","t","h","e"," ","m","a","i","l"," ","s","e","r","v","i","c","e">>, <<"R","e","s","t","a","r","t"," ","t","h","e"," ","m","a","i","l"," ","s","e","r","v","i","c","e">>>>}

SentencePool == {sp[1] : sp \in SentencePairs}

MaxSentences == 3

MaxResolutions == 2

\* the sentences, each ended by a period, separated by one space
PeriodSeparated(sentences) ==
    str_join([i \in DOMAIN sentences |-> sentences[i] \o <<".">>], <<" ">>)

\* candidate steps handed to _convert_to_imperative
CandidateTexts ==
    {<<"R","e","s","t","a","r","t","e","d"," ","t","h","e"," ","m","a","i","l"," ","s","e","r","v","i","c","e">>,
     <<"R","e","s","t","a","r","t","e","d"," ","t","h","e"," ","m","a","i","l"," ","s","e","r","v","i","c","e",".">>,
     <<"R","e","s","t","a","r","t","e","d"," ","t","h","e"," ","m","a","i","l"," ","s","e","r","v","i","c","e",".",".",".">>,
     <<"R","e","s","t","a","r","t","e","d"," ","t","h","e"," ","m","a","i","l"," ","s","e","r","v","i","c","e","!">>,
     <<"I","s"," ","t","h","e"," ","m","a","i","l"," ","s","e","r","v","i","c","e"," ","r","u","n","n","i","n","g","?">>,
     <<"c","h","e","c","k","e","d"," ","m","a","i","l","b","o","x"," ","q","u","o","t","a">>,
     <<" "," ","R","e","b","o","o","t","e","d"," ","t","h","e"," ","r","o","u","t","e","r"," ","n","o","w","!","!"," "," ">>,
     <<"E","s","c","a","l","a","t","e","d"," ","t","o"," ","t","h","e"," ","n","e","t","w","o","r","k"," ","t","e","a","m",".">>,
     <<"F","i","x","e","d">>}

res_data(text) == [incident_number |-> NUM_INC1, resolution |-> text]

InitSOP ==
    /\ ValidatorIdle
    /\ CategorizerIdle
    /\ RagIdle
    /\ StoreIdle
    /\ WebIdle
    /\ IndexIdle
    /\ PipelineIdle
    /\ KbIdle
    /\ SingleIdle
    /\ CsvIdle
    /\ s_sop = NoDocument
    /\ s_steps = <<>>
    /\ s_steps_again = <<>>
    /\ s_imperative = <<>>
    /\ \/ /\ s_pc = "generate_sop"
          /\ s_min_incidents \in {default_min_incidents, web_min_incidents}
          /\ s_incidents \in SeqUpTo(ClusterPool, MaxCluster)
          /\ s_analysis \in Analyses
          /\ s_sentences = <<>>
          /\ s_resolutions = <<>>
          /\ s_text = <<>>
       \/ /\ s_pc = "convert"
          /\ s_min_incidents = default_min_incidents
          /\ s_incidents = <<>>
          /\ s_analysis = None
          /\ s_sentences = <<>>
          /\ s_resolutions = <<>>
          /\ s_text \in CandidateTexts
       \/ /\ s_pc = "extract"
          /\ s_min_incidents = default_min_incidents
          /\ s_incidents = <<>>
          /\ s_analysis = None
          /\ s_text = <<>>
          /\ \/ /\ s_sentences \in SeqUpTo(SentencePool, MaxSentences) \ {<<>>}
                /\ s_resolutions = <<res_data(PeriodSeparated(s_sentences))>>
             \/ /\ s_sentences = <<>>
                /\ \E texts \in SeqUpTo(FixedTexts, MaxResolutions) :
                      s_resolutions = [i \in DOMAIN texts |-> res_data(texts[i])]

\* a call of SOPGenerator.generate_sop(0, s_incidents, s_analysis)
GenerateSop ==
    /\ s_pc = "generate_sop"
    /\ s_sop' = generate_sop(s_min_incidents, 0, s_incidents, s_analysis)
    /\ s_pc' = "sop_done"
    /\ UNCHANGED <<s_min_incidents, s_incidents, s_analysis, s_sentences, s_resolutions,
                   s_steps, s_steps_again, s_text, s_imperative>>
    /\ UNCHANGED <<varsValidator, varsCategorizer, varsRag, varsStore, varsWeb, varsIndex, varsPipeline, varsKb, varsSingle, varsCsv>>

\* a call of SOPGenerator._extract_resolution_steps(s_resolutions)
ExtractSteps ==
    /\ s_pc = "extract"
    /\ s_steps' = _extract_resolution_steps(s_resolutions)
    /\ s_pc' = "extracted"
    /\ UNCHANGED <<s_min_incidents, s_incidents, s_analysis, s_sop, s_sentences,
                   s_resolutions, s_steps_again, s_text, s_imperative>>
    /\ UNCHANGED <<varsValidator, varsCategorizer, varsRag, varsStore, varsWeb, varsIndex, varsPipeline, varsKb, varsSingle, varsCsv>>

\* a second call with the same argument
ExtractStepsAgain ==
    /\ s_pc = "extracted"
    /\ s_steps_again' = _extract_resolution_steps(s_resolutions)
    /\ s_pc' = "extracted_again"
    /\ UNCHANGED <<s_min_incidents, s_incidents, s_analysis, s_sop, s_sentences,
                   s_resolutions, s_steps, s_text, s_imperative>>
    /\ UNCHANGED <<varsValidator, varsCategorizer, varsRag, varsStore, varsWeb, varsIndex, varsPipeline, varsKb, varsSingle, varsCsv>>

\* a call of SOPGenerator._convert_to_imperative(s_text)
ConvertToImperative ==
    /\ s_pc = "convert"
    /\ s_imperative' = _convert_to_imperative(s_text)
    /\ s_pc' = "converted"
    /\ UNCHANGED <<s_min_incidents, s_incidents, s_analysis, s_sop, s_sentences,
                   s_resolutions, s_steps, s_steps_again, s_text>>
    /\ UNCHANGED <<varsValidator, varsCategorizer, varsRag, varsStore, varsWeb, varsIndex, varsPipeline, varsKb, varsSingle, varsCsv>>

----------------------------------------------------------------------------
(* Claims about the SOP generator                                           *)

\* the resolution text of a cluster member: resolution_notes, else close_notes, else none
C3_Resolution(inc) ==
    IF inc.resolution_notes # None /\ inc.resolution_notes # <<>> THEN inc.resolution_notes
    ELSE IF inc.close_notes # None /\ inc.close_notes # <<>> THEN inc.close_notes
    ELSE <<>>

\* the cluster's first member that has a resolution text has one longer than 20 characters
C3_FirstResolutionIsLong ==
    \E i \in DOMAIN s_incidents :
        /\ Len(C3_Resolution(s_incidents[i])) > 20
        /\ \A j \in 1..(i - 1) : C3_Resolution(s_incidents[j]) = <<>>

C6_Key(step) ==
    [k \in 1..(IF Len(step) < 50 THEN Len(step) ELSE 50) |-> LowerChar(step[k])]

C6_DistinctKeys(steps) ==
    \A i, j \in DOMAIN steps : i # j => C6_Key(steps[i]) # C6_Key(steps[j])

C7_Imperative(sentence) == (CHOOSE sp \in SentencePairs : sp[1] = sentence)[2]

\* C7 as stated: for one resolution text of period-separated sentences that each begin
\* with a known past-tense verb, the extractor returns one step per sentence, in order,
\* each the sentence with its first word made imperative and without trailing period.
C7_OneStepPerSentenceNoPeriod ==
    (s_pc = "extracted" /\ s_sentences # <<>>) =>
        s_steps = [i \in DOMAIN s_sentences |-> C7_Imperative(s_sentences[i])]

\* C7 amended: for one resolution text of at most 20 period-separated sentences that
\* each begin with a known past-tense verb, are each longer than 15 characters and whose
\* steps differ in their lower-cased first 50 characters, the extractor returns one step
\* per sentence, in order, each the sentence with its first word made imperative and
\* ending in exactly one period.
C7_OneStepPerLongSentence ==
    (/\ s_pc = "extracted"
     /\ s_sentences # <<>>
     /\ Len(s_sentences) <= 20
     /\ \A i \in DOMAIN s_sentences : Len(s_sentences[i]) > 15
     /\ C6_DistinctKeys([i \in DOMAIN s_sentences |-> C7_Imperative(s_sentences[i])]))
    => s_steps = [i \in DOMAIN s_sentences |-> C7_Imperative(s_sentences[i]) \o <<".">>]

\* "Checked mailbox quota. Increased limit to 50GB." has been turned into two steps
C7_Witness ==
    /\ s_pc = "extracted"
    /\ s_resolutions = <<res_data(T_quota)>>
    /\ s_sentences # <<>>
    /\ s_steps = <<<<"C","h","e","c","k"," ","m","a","i","l","b","o","x"," ","q","u","o","t","a",".">>,
                   <<"I","n","c","r","e","a","s","e"," ","l","i","m","i","t"," ","t","o"," ","5","0","G","B",".">>>>

\* how many of the raw candidate steps have the dedup key of step
C16_Collapsed(candidates, step) ==
    Cardinality({c \in DOMAIN candidates : dedup_pattern(candidates[c]) = dedup_pattern(step)})

\* the policy on the steps returned for the raw candidates
C16_Policy(candidates, steps) ==
    /\ \A i \in DOMAIN steps : \A c \in DOMAIN candidates :
          dedup_pattern(candidates[c]) = dedup_pattern(steps[i])
             => Len(candidates[c]) <= Len(steps[i])
    /\ \A i, j \in DOMAIN steps :
          i < j => C16_Collapsed(candidates, steps[i]) >= C16_Collapsed(candidates, steps[j])

\* C16: of the candidate steps that share a dedup key the extractor keeps the longest,
\* and the unique steps it returns are ordered by how many raw candidates collapsed
\* into each, the most frequent first.
C16_LongestVariantMostFrequentFirst ==
    s_pc = "extracted" => C16_Policy(candidate_steps(s_resolutions), s_steps)

\* two candidates of one key, the later one longer, went through the extractor
C16_Reached ==
    /\ s_pc = "extracted"
    /\ s_resolutions = <<res_data(T_alike)>>
    /\ Len(candidate_steps(s_resolutions)) = 2
    /\ Len(s_steps) = 1
    /\ Len(s_steps[1]) < Len(candidate_steps(s_resolutions)[2])

\* a line of the text starts with a numbered or bulleted marker
C17_HasMarkerLine(text) ==
    \E line \in {str_strip(l) : l \in Range(str_split(text, <<"\n">>))} :
       \E p \in step_prefixes : str_startswith(line, p)

\* a step of the same dedup key was returned
C17_Returned(step) ==
    \E j \in DOMAIN s_steps : dedup_pattern(s_steps[j]) = dedup_pattern(step)

\* C17: the extraction policy is applied per resolution text: every text of the list
\* without a numbered or bulleted line is sentence-split and its sentences above the
\* minimum length become candidate steps, whatever markers the other texts contain.
C17_SentenceSplitPerText ==
    (s_pc = "extracted" /\ Len(s_steps) < step_cap) =>
       \A i \in DOMAIN s_resolutions :
          ~C17_HasMarkerLine(s_resolutions[i].resolution) =>
             \A step \in Range(sentence_steps(s_resolutions[i].resolution)) :
                C17_Returned(step)

\* a numbered text and a plain text with two long sentences went through together
C17_Reached ==
    /\ s_pc = "extracted"
    /\ s_resolutions = <<res_data(T_numbered), res_data(T_quota)>>
    /\ ~C17_HasMarkerLine(T_quota)
    /\ Len(sentence_steps(T_quota)) = 2
    /\ Len(s_steps) = 2

\* the substrings that mark a placeholder resolution
C18_PlaceholderMarkers == {<<"p","e","n","d","i","n","g">>, <<"m","a","n","u","a","l","l","y">>}

C18_IsPlaceholder(text) == \E marker \in C18_PlaceholderMarkers : str_contains(text, marker)

\* the resolutions that are not placeholders, in order
C18_WithoutPlaceholders(resolutions) ==
    SelectSeq(resolutions, LAMBDA res : ~C18_IsPlaceholder(res.resolution))

\* C18: resolution texts that are pure placeholders (containing "pending" or "manually")
\* are skipped before extraction and contribute no step: the steps returned are those
\* of the list without the placeholder texts.
C18_PlaceholdersContributeNoStep ==
    s_pc = "extracted" =>
       s_steps = _extract_resolution_steps(C18_WithoutPlaceholders(s_resolutions))

\* the placeholder of the web application went through the extractor and left steps
C18_Reached ==
    /\ s_pc = "extracted"
    /\ s_resolutions = <<res_data(T_pending)>>
    /\ C18_IsPlaceholder(T_pending)
    /\ s_steps # <<>>

\* the text ends with one period that no other period precedes
C19_OneTerminalPeriod(text) ==
    /\ text # <<>>
    /\ text[Len(text)] = "."
    /\ Len(text) > 1 => text[Len(text) - 1] # "."

\* C19: for every non-empty candidate step, what _convert_to_imperative returns starts
\* with a capital letter and ends with exactly one terminal period, also when the
\* candidate ends with several periods, with '!' or with '?'.
C19_CapitalAndOnePeriod ==
    (s_pc = "converted" /\ str_strip(s_text) # <<>>) =>
       /\ s_imperative # <<>>
       /\ s_imperative[1] \in Range(UpperLetters)
       /\ C19_OneTerminalPeriod(s_imperative)

\* a candidate ending with an exclamation mark was converted
C19_Reached ==
    /\ s_pc = "converted"
    /\ s_text # <<>>
    /\ s_text[Len(s_text)] = "!"
    /\ s_imperative # <<>>
    /\ s_imperative[Len(s_imperative)] = "!"

C20_Digits == {"0", "1", "2", "3", "4", "5", "6", "7", "8", "9"}

C20_Bullets == {"-", "*", "(bullet)", "(square)", "(circle)"}

\* the length of the marker the line begins with: a bullet, or an item number and its
\* period; 0 when the line begins with neither
C20_MarkerLen(line) ==
    LET digits == Len(line) - Len(str_lstrip(line, C20_Digits))
    IN IF line # <<>> /\ line[1] \in C20_Bullets THEN 1
       ELSE IF digits > 0 /\ digits < Len(line) /\ line[digits + 1] = "." THEN digits + 1
       ELSE 0

\* the line without its marker
C20_Remainder(line) == str_strip(SubSeq(line, C20_MarkerLen(line) + 1, Len(line)))

C20_Lines(text) == {str_strip(l) : l \in Range(str_split(text, <<"\n">>))}

\* C20: every line that begins with a numeric marker (any item number and a period,
\* 10 and above included) or a bullet marker loses exactly the marker, and the rest of
\* the line, its own leading digits and dashes kept, becomes a candidate step (put in
\* the imperative like every candidate) when it is longer than 10 characters.
C20_ExactlyTheMarkerStripped ==
    (s_pc = "extracted" /\ Len(s_steps) < step_cap) =>
       \A i \in DOMAIN s_resolutions :
          \A line \in C20_Lines(s_resolutions[i].resolution) :
             (C20_MarkerLen(line) > 0 /\ Len(C20_Remainder(line)) > 10) =>
                \E j \in DOMAIN s_steps :
                   dedup_pattern(s_steps[j])
                      = dedup_pattern(_convert_to_imperative(C20_Remainder(line)))

\* a list with an item 10 went through the extractor and its line 10 left no step
C20_Reached ==
    /\ s_pc = "extracted"
    /\ s_resolutions = <<res_data(T_ten)>>
    /\ \E line \in C20_Lines(T_ten) : C20_MarkerLen(line) = 3 /\ Len(C20_Remainder(line)) > 10
    /\ Len(s_steps) = 1

----------------------------------------------------------------------------
(* IncidentCategorizer                                                      *)

\* the text of one incident that is embedded; the number is not part of it
_extract_features(incident) ==
    LET part(label, value) == IF truthy(value) THEN <<label \o value>> ELSE <<>>
        joined(parts) == IF parts = <<>> THEN <<"U","n","k","n","o","w","n"," ","i","n","c","i","d","e","n","t">>
                         ELSE str_join(parts, <<" ", "|", " ">>)
    IN joined(part(<<"P","r","o","b","l","e","m",":"," ">>, dict_get(incident, "short_description", <<>>))
              \o part(<<"C","a","t","e","g","o","r","y",":"," ">>, dict_get(incident, "category", <<>>)))

SD_vpn == <<"V","P","N"," ","c","o","n","n","e","c","t","i","o","n"," ","d","r","o","p","s">>

SD_printer == <<"P","r","i","n","t","e","r"," ","o","f","f","l","i","n","e">>

CAT_network == <<"N","e","t","w","o","r","k">>

NUM_INC2 == <<"I","N","C","0","0","0","2">>

NUM_INC3 == <<"I","N","C","0","0","0","3">>

\* a record of the categorizer's batch: oid tells the dict objects apart, the other
\* fields are the dict's items
CatIncident(number, short_description, category) ==
    [oid |-> 0, number |-> number, short_description |-> short_description,
     category |-> category]

CatPool ==
    {CatIncident(NUM_INC1, SD_ok, CAT_email),
     CatIncident(NUM_INC2, SD_vpn, CAT_network),
     CatIncident(NUM_INC3, SD_printer, CAT_email)}

\* SentenceTransformer.encode on one text: the same text always gets the same vector
encode(text) ==
    IF text = _extract_features(CatIncident(NUM_INC1, SD_ok, CAT_email)) THEN <<10, 0>>
    ELSE IF text = _extract_features(CatIncident(NUM_INC2, SD_vpn, CAT_network)) THEN <<3, 4>>
    ELSE <<12, 9>>

\* the length every normalized vector has in the model (1.0 in the code)
UnitLength == 5

dot(a, b) == a[1] * b[1] + a[2] * b[2]

\* sklearn.preprocessing.normalize on one row: the row scaled to unit length
normalize(v) ==
    LET scaled(norm) == [k \in DOMAIN v |-> (UnitLength * v[k]) \div norm]
    IN scaled(CHOOSE n \in 1..20 : n * n = dot(v, v))

\* dict == dict: the same items; object identity plays no part
dict_eq(a, b) ==
    /\ a.number = b.number
    /\ a.short_description = b.short_description
    /\ a.category = b.category

\* inc in incidents (list membership by ==)
list_contains(incidents, inc) == \E j \in DOMAIN incidents : dict_eq(incidents[j], inc)

Labels == {-1, 0, 1}

\* create_categorizer_from_config's defaults, and the web application's categorizer
DefaultClusterer == [min_cluster_size |-> 5, min_samples |-> 3]

WebClusterer == [min_cluster_size |-> 2, min_samples |-> 1]

\* sklearn HDBSCAN.fit_predict on n rows.  It raises ValueError when min_samples exceeds
\* n; a single row leaves the condensed tree empty, and the call raises or labels the
\* row noise.
fit_raises(config, n) ==
    IF config.min_samples > n THEN {TRUE}
    ELSE IF n = 1 THEN BOOLEAN
    ELSE {FALSE}

\* the label vectors it can return: no cluster has fewer than min_cluster_size members
fit_predict(config, n) ==
    {labels \in [1..n -> Labels] :
        \A label \in Labels \ {-1} :
            \/ \A i \in 1..n : labels[i] # label
            \/ Cardinality({i \in 1..n : labels[i] = label}) >= config.min_cluster_size}

group_by_label_mut(incidents, labels) ==
    [label \in {labels[i] : i \in DOMAIN labels} |->
        SelectSeq(incidents, LAMBDA inc : labels[inc.oid] \in {label, -1})]

\* the loop over enumerate(labels): noise skipped, each other incident appended to the
\* list of its label
group_by_label(incidents, labels) ==
    [label \in {labels[i] : i \in DOMAIN labels} \ {-1} |->
        SelectSeq(incidents, LAMBDA inc : labels[inc.oid] = label)]

\* category -> count, most frequent first, ties in order of first appearance
common_categories(incidents) ==
    LET categories == SelectSeq([i \in DOMAIN incidents |-> incidents[i].category], truthy)
        count(c) == Cardinality({i \in DOMAIN categories : categories[i] = c})
        first(c) == CHOOSE i \in DOMAIN categories :
                       categories[i] = c /\ \A j \in 1..(i - 1) : categories[j] # c
        before(d, c) == count(d) > count(c) \/ (count(d) = count(c) /\ first(d) < first(c))
        rank(c) == 1 + Cardinality({d \in Range(categories) : before(d, c)})
    IN [r \in 1..Cardinality(Range(categories)) |->
           LET c == CHOOSE c \in Range(categories) : rank(c) = r IN <<c, count(c)>>]

IndexError == [raised |-> "IndexError"]

_get_representative_incident(self_incidents, self_embeddings, cluster_id, incidents) ==
    LET \* np.argmax: the first position of the maximum
        argmax(similarities) ==
            CHOOSE k \in DOMAIN similarities :
                /\ \A m \in DOMAIN similarities : similarities[m] <= similarities[k]
                /\ \A m \in 1..(k - 1) : similarities[m] < similarities[k]
        pick(closest_idx) ==
            IF closest_idx > Len(incidents) THEN IndexError ELSE incidents[closest_idx]
        \* Len(cluster_embeddings) times np.mean: the factor leaves the argmax as it is
        centroid(cluster_embeddings) ==
            [d \in 1..2 |-> LET RECURSIVE total(_)
                                total(k) == IF k = 0 THEN 0
                                            ELSE cluster_embeddings[k][d] + total(k - 1)
                            IN total(Len(cluster_embeddings))]
        closest(cluster_embeddings, center) ==
            pick(argmax([k \in DOMAIN cluster_embeddings |->
                            dot(cluster_embeddings[k], center)]))
        of_embeddings(cluster_embeddings) ==
            closest(cluster_embeddings, centroid(cluster_embeddings))
        of_indices(indices) ==
            IF indices = <<>> THEN incidents[1]
            ELSE of_embeddings([k \in DOMAIN indices |-> self_embeddings[indices[k]]])
    IN IF incidents = <<>> \/ self_embeddings = <<>> THEN [number |-> None]
       ELSE of_indices(SelectSeq([i \in DOMAIN self_incidents |-> i],
                                 LAMBDA i : list_contains(incidents, self_incidents[i])))

analyze_cluster(self_incidents, self_embeddings, cluster_id, incidents) ==
    LET analysis(representative) ==
            IF representative = IndexError THEN IndexError
            ELSE [cluster_id |-> cluster_id,
                  incident_count |-> Len(incidents),
                  common_categories |-> common_categories(incidents),
                  representative_incident |-> representative.number]
    IN analysis(_get_representative_incident(self_incidents, self_embeddings,
                                             cluster_id, incidents))

MaxCatBatch == 4

CatBatches ==
    {[i \in DOMAIN b |-> [b[i] EXCEPT !.oid = i]] : b \in SeqUpTo(CatPool, MaxCatBatch)}

InitCategorizer ==
    /\ ValidatorIdle
    /\ SOPIdle
    /\ RagIdle
    /\ StoreIdle
    /\ WebIdle
    /\ IndexIdle
    /\ PipelineIdle
    /\ KbIdle
    /\ SingleIdle
    /\ CsvIdle
    /\ c_config \in {DefaultClusterer, WebClusterer}
    /\ c_batch \in CatBatches
    /\ c_labels = <<>>
    /\ c_incidents = <<>>
    /\ c_embeddings = <<>>
    /\ c_clusters = <<>>
    /\ c_analysis = <<>>
    /\ c_pc = "categorize"

\* a call of categorize_incidents(c_batch); HDBSCAN.fit_predict may return any labels
CategorizeIncidents ==
    /\ c_pc = "categorize"
    /\ IF c_batch = <<>>
       THEN /\ c_pc' = "categorized"
            /\ UNCHANGED <<c_labels, c_incidents, c_embeddings, c_clusters>>
       ELSE /\ c_incidents' = c_batch
            /\ c_embeddings' = [i \in DOMAIN c_batch |->
                                   normalize(encode(_extract_features(c_batch[i])))]
            /\ \E raised \in fit_raises(c_config, Len(c_batch)) :
                  IF raised
                  THEN /\ c_pc' = "raised"
                       /\ UNCHANGED <<c_labels, c_clusters>>
                  ELSE \E labels \in fit_predict(c_config, Len(c_batch)) :
                          /\ c_labels' = labels
                          /\ c_clusters' = group_by_label(c_batch, labels)
                          /\ c_pc' = "categorized"
    /\ UNCHANGED <<c_batch, c_analysis, c_config>>
    /\ UNCHANGED <<varsValidator, varsSOP, varsRag, varsStore, varsWeb, varsIndex, varsPipeline, varsKb, varsSingle, varsCsv>>

\* a call of analyze_cluster(cluster_id, clusters[cluster_id]) on a returned cluster
AnalyzeCluster ==
    /\ c_pc = "categorized"
    /\ \E cluster_id \in DOMAIN c_clusters \ DOMAIN c_analysis :
          c_analysis' = [k \in DOMAIN c_analysis \cup {cluster_id} |->
                            IF k = cluster_id
                            THEN analyze_cluster(c_incidents, c_embeddings, cluster_id,
                                                 c_clusters[cluster_id])
                            ELSE c_analysis[k]]
    /\ UNCHANGED <<c_batch, c_labels, c_incidents, c_embeddings, c_clusters, c_pc, c_config>>
    /\ UNCHANGED <<varsValidator, varsSOP, varsRag, varsStore, varsWeb, varsIndex, varsPipeline, varsKb, varsSingle, varsCsv>>

----------------------------------------------------------------------------
(* Claims about the categorizer                                             *)

\* the places (cluster id, position) where the batch's i-th dict object is listed
C4_Places(i) ==
    {<<k, m>> \in UNION {{k} \X DOMAIN c_clusters[k] : k \in DOMAIN c_clusters} :
        c_clusters[k][m].oid = i}

\* C4: after categorize_incidents, for any batch and any label vector, every incident
\* with a label other than -1 is listed exactly once, in the cluster of its label; no
\* incident labelled -1 is listed; the cluster members and the noise incidents together
\* are the batch, each incident once.
C4_ClustersPartitionNonNoise ==
    (c_pc = "categorized" /\ c_batch # <<>>) =>
        /\ \A i \in DOMAIN c_batch :
              IF c_labels[i] = -1 THEN C4_Places(i) = {}
              ELSE /\ Cardinality(C4_Places(i)) = 1
                   /\ \A pl \in C4_Places(i) :
                         pl[1] = c_labels[i] /\ c_clusters[pl[1]][pl[2]] = c_batch[i]
        /\ \A k \in DOMAIN c_clusters : \A m \in DOMAIN c_clusters[k] :
              c_clusters[k][m].oid \in DOMAIN c_batch
        /\ Cardinality(UNION {C4_Places(i) : i \in DOMAIN c_batch})
             + Cardinality({i \in DOMAIN c_batch : c_labels[i] = -1}) = Len(c_batch)

\* a batch of four with a cluster and noise points among its members has been grouped
C4_Witness ==
    /\ c_pc = "categorized"
    /\ Len(c_batch) = 4
    /\ DOMAIN c_clusters = {1}
    /\ Len(c_clusters[1]) = 2
    /\ c_labels[1] = -1
    /\ c_labels[4] = 1

C14_SmallBatchGivesNoClusters ==
    (c_pc # "categorize" /\ c_batch # <<>> /\ Len(c_batch) < c_config.min_cluster_size) =>
        /\ c_pc = "categorized"
        /\ DOMAIN c_clusters = {}

\* the default categorizer was given two incidents
C14_Reached ==
    /\ c_config = DefaultClusterer
    /\ Len(c_batch) = 2
    /\ c_pc = "raised"
    /\ c_incidents = c_batch

\* the embedding row of a cluster member: the row of its own position in the batch
C21_Row(member) == c_embeddings[member.oid]

\* the sum of the members' own rows (the centroid times the cluster size)
C21_Centroid(members) ==
    [d \in 1..2 |-> LET RECURSIVE total(_)
                        total(k) == IF k = 0 THEN 0
                                    ELSE C21_Row(members[k])[d] + total(k - 1)
                    IN total(Len(members))]

\* the numbers of the members closest to the centroid of their own cluster
C21_Closest(members) ==
    {members[m].number : m \in
        {m \in DOMAIN members : \A n \in DOMAIN members :
            dot(C21_Row(members[n]), C21_Centroid(members))
               <= dot(C21_Row(members[m]), C21_Centroid(members))}}

----------------------------------------------------------------------------
(* ResolutionFinder and the ChromaDB client                                 *)
(* Similarities and distances are in hundredths: 30 stands for 0.3.        *)

\* sklearn cosine_similarity of two unit vectors
cosine_similarity(a, b) == (100 * dot(a, b)) \div (UnitLength * UnitLength)

\* the distance of the collection's default space: the squared L2 distance
chroma_distance(a, b) == 200 - 2 * cosine_similarity(a, b)

\* the resolution, or the description of an incident without one
has_resolution_or_description(inc) ==
    \/ truthy(inc.resolution_notes) /\ Len(inc.resolution_notes) > 20
    \/ truthy(inc.description) /\ Len(inc.description) > 30

ranking_mut(scores, ties) == [r \in DOMAIN scores |-> r]

\* the positions of scores from the best to the worst; equal scores in the order ties
ranking(scores, ties) ==
    LET before(j, i) ==
            \/ scores[j] > scores[i]
            \/ scores[j] = scores[i] /\ IF ties = "ascending" THEN j < i ELSE j > i
    IN [r \in DOMAIN scores |->
           CHOOSE i \in DOMAIN scores :
               Cardinality({j \in DOMAIN scores : before(j, i)}) = r - 1]

first_k(s, k) == SubSeq(s, 1, IF Len(s) < k THEN Len(s) ELSE k)

\* the in-memory branch of find_similar_incidents
\* incident.copy() with the score added; idx tells which row of the knowledge base it is
scored(incident, idx, similarity) ==
    [key \in DOMAIN incident \cup {"idx", "similarity_score"} |->
        IF key = "idx" THEN idx
        ELSE IF key = "similarity_score" THEN similarity
        ELSE incident[key]]

find_in_memory_mut(knowledge_base, embeddings_cache, ties, query) ==
    [r \in DOMAIN knowledge_base |->
        scored(knowledge_base[r], r,
               cosine_similarity(query.embedding, embeddings_cache[r]))]

find_in_memory(knowledge_base, embeddings_cache, ties, query) ==
    LET similarity(idx) == cosine_similarity(query.embedding, embeddings_cache[idx])
        keeps(idx) ==
            /\ similarity(idx) >= query.min_similarity
            /\ \/ query.category = None
               \/ str_lower(dict_get(knowledge_base[idx], "category", <<>>))
                     = str_lower(query.category)
        result(idx) == scored(knowledge_base[idx], idx, similarity(idx))
        of_top(top_indices) ==
            LET kept == SelectSeq(top_indices, keeps)
            IN [r \in DOMAIN kept |-> result(kept[r])]
    IN IF knowledge_base = <<>> THEN <<>>
       ELSE of_top(first_k(ranking([idx \in DOMAIN embeddings_cache |-> similarity(idx)],
                                   ties), query.top_k))

\* ChromaDBClient.search_similar: the top_k nearest documents of the category
search_similar(collection, ties, query) ==
    LET matching == SelectSeq(collection,
                              LAMBDA doc : ~truthy(query.category)
                                              \/ doc.category = query.category)
        distance(doc) == chroma_distance(query.embedding, doc.embedding)
        result(doc) == [number |-> doc.number, category |-> doc.category,
                        resolution_notes |-> doc.document,
                        similarity_score |-> 100 - distance(doc),
                        distance |-> distance(doc)]
        of_nearest(nearest) == [r \in DOMAIN nearest |-> result(matching[nearest[r]])]
    IN of_nearest(first_k(ranking([m \in DOMAIN matching |-> 0 - distance(matching[m])],
                                  ties), query.top_k))

find_similar_incidents(use_chromadb, knowledge_base, embeddings_cache, collection, ties, query) ==
    IF use_chromadb
    THEN SelectSeq(search_similar(collection, ties, query),
                   LAMBDA inc : inc.similarity_score >= query.min_similarity)
    ELSE find_in_memory(knowledge_base, embeddings_cache, ties, query)

Digits == <<"0", "1", "2", "3", "4", "5", "6", "7", "8", "9">>

\* inc.get('resolution_notes', '')
result_notes(inc) == dict_get(inc, "resolution_notes", <<>>)

_create_combined_resolution(incidents) ==
    IF incidents = <<>> THEN <<>>
    ELSE IF Len(incidents) > 1 /\ incidents[2].similarity_score > 80
    THEN result_notes(incidents[1]) \o <<"\n","\n","[","N","o","t","e",":"," ","B","a","s","e","d"," ","o","n"," ">>
            \o <<Digits[Len(incidents) + 1]>> \o <<" ","s","i","m","i","l","a","r"," ","r","e","s","o","l","v","e","d"," ","i","n","c","i","d","e","n","t","s","]">>
    ELSE result_notes(incidents[1])

suggest_floor == 30

suggest_top_k == 5

NoMatch == [success |-> FALSE, source_incidents |-> <<>>]

suggest_resolution(use_chromadb, knowledge_base, embeddings_cache, collection, ties, query) ==
    LET resolution_text(inc) ==
            IF ~truthy(result_notes(inc)) \/ Len(result_notes(inc)) < 20
            THEN <<"S","i","m","i","l","a","r"," ","i","n","c","i","d","e","n","t"," ","f","o","u","n","d",":"," ">> \o
                    dict_get(inc, "description", <<"N","o"," ","d","e","t","a","i","l","s"," ","a","v","a","i","l","a","b","l","e">>)
            ELSE result_notes(inc)
        resolution(inc) == [resolution |-> resolution_text(inc),
                            similarity |-> inc.similarity_score]
        suggestion(similar_incidents) ==
            IF similar_incidents = <<>> THEN NoMatch
            ELSE [success |-> TRUE,
                  suggested_resolution |-> _create_combined_resolution(similar_incidents),
                  primary_source |-> resolution(similar_incidents[1]),
                  alternative_resolutions |->
                      [r \in 1..((IF Len(similar_incidents) < 4 THEN Len(similar_incidents)
                                  ELSE 4) - 1) |-> resolution(similar_incidents[r + 1])],
                  confidence |-> similar_incidents[1].similarity_score]
    IN suggestion(find_similar_incidents(use_chromadb, knowledge_base, embeddings_cache,
                      collection, ties,
                      [query EXCEPT !.top_k = suggest_top_k, !.min_similarity = suggest_floor]))

\* ChromaDBClient.add_incidents_bulk on an empty collection: the batch goes in as one
\* add; when two of its ids are the same the add fails and the incidents with at least
\* 20 characters of resolution go in one by one, the first of each id
add_incidents_bulk(incidents) ==
    LET valid == SelectSeq(incidents, has_resolution_or_description)
        document(inc) == IF ~truthy(inc.resolution_notes) \/ Len(inc.resolution_notes) < 20
                         THEN inc.description ELSE inc.resolution_notes
        doc(inc, text) == [id |-> inc.number, number |-> inc.number,
                           category |-> inc.category, document |-> text,
                           embedding |-> inc.embedding]
        distinct_ids(list) == \A i, j \in DOMAIN list : i # j => list[i].number # list[j].number
        resolved == SelectSeq(valid, LAMBDA inc : truthy(inc.resolution_notes)
                                                     /\ Len(inc.resolution_notes) >= 20)
        firsts(list) == SelectSeq([i \in DOMAIN list |-> [at |-> i, inc |-> list[i]]],
                                  LAMBDA e : \A j \in 1..(e.at - 1) :
                                                 list[j].number # e.inc.number)
        one_by_one(list) == [i \in DOMAIN list |-> doc(list[i].inc, list[i].inc.resolution_notes)]
    IN IF distinct_ids(valid)
       THEN [i \in DOMAIN valid |-> doc(valid[i], document(valid[i]))]
       ELSE one_by_one(firsts(resolved))

D_verbose == <<"U","s","e","r"," ","c","a","n","n","o","t"," ","o","p","e","n"," ","t","h","e"," ","s","h","a","r","e","d"," ","m","a","i","l","b","o","x">>

CAT_email_lower == <<"e","m","a","i","l">>

\* an incident offered to the knowledge base; embedding stands for what the sentence
\* transformer makes of its text
RagIncident(number, category, description, resolution_notes, embedding) ==
    [number |-> number, category |-> category, description |-> description,
     resolution_notes |-> resolution_notes, embedding |-> embedding]

RagPool ==
    {RagIncident(NUM_INC1, CAT_email, D_long, R_long, <<5, 0>>),
     RagIncident(NUM_INC2, CAT_email_lower, D_long, CN_long, <<4, 3>>),
     RagIncident(NUM_INC3, CAT_network, D_long, R_tbd, <<3, 4>>),
     RagIncident(NUM_INC1, CAT_email, D_verbose, R_short, <<4, 3>>),
     RagIncident(NUM_INC3, CAT_network, D_short, R_short, <<0, 5>>)}

MaxKB == 2

\* the incident under a number of its own
RagNumbered(inc, k) == [inc EXCEPT !.number = <<"I","N","C","1","0","0", Digits[k + 1]>>]

\* two larger knowledge bases: five incidents of mixed similarity, and five network
\* incidents followed by one email incident
LargeIncoming ==
    {[k \in 1..5 |->
         RagNumbered(<<RagIncident(NUM_INC3, CAT_network, D_long, R_tbd, <<3, 4>>),
                       RagIncident(NUM_INC2, CAT_email_lower, D_long, CN_long, <<4, 3>>),
                       RagIncident(NUM_INC1, CAT_email, D_long, R_long, <<5, 0>>),
                       RagIncident(NUM_INC1, CAT_email, D_verbose, R_short, <<4, 3>>),
                       RagIncident(NUM_INC2, CAT_email_lower, D_long, CN_long, <<4, 3>>)>>[k], k)],
     [k \in 1..6 |->
         RagNumbered(IF k < 6 THEN RagIncident(NUM_INC3, CAT_network, D_long, R_tbd, <<3, 4>>)
                     ELSE RagIncident(NUM_INC1, CAT_email, D_long, R_long, <<5, 0>>), k)]}

Floors == {30, 50, 90}

Queries ==
    [embedding : {<<5, 0>>, <<3, 4>>},
     category : {None, CAT_email},
     top_k : {1, suggest_top_k},
     min_similarity : Floors]

InitRag ==
    /\ ValidatorIdle
    /\ SOPIdle
    /\ CategorizerIdle
    /\ StoreIdle
    /\ WebIdle
    /\ IndexIdle
    /\ PipelineIdle
    /\ KbIdle
    /\ SingleIdle
    /\ CsvIdle
    /\ r_use_chromadb \in BOOLEAN
    /\ r_incoming \in SeqUpTo(RagPool, MaxKB) \cup LargeIncoming
    /\ r_knowledge_base = <<>>
    /\ r_embeddings_cache = <<>>
    /\ r_collection = <<>>
    /\ r_ties \in {"ascending", "descending"}
    /\ r_query \in Queries
    /\ r_results = <<>>
    /\ r_results_higher = <<>>
    /\ r_suggestion = None
    /\ r_pc = "load"
    /\ r_kb_file = <<RagIncident(NUM_INC1, CAT_email, D_long, R_long, <<5, 0>>)>>
    /\ r_added = NoAdd

\* a call of load_knowledge_base(r_incoming)
LoadKnowledgeBase ==
    /\ r_pc = "load"
    /\ IF r_use_chromadb
       THEN /\ r_collection' = add_incidents_bulk(r_incoming)
            /\ UNCHANGED <<r_knowledge_base, r_embeddings_cache>>
       ELSE \E valid_incidents \in {SelectSeq(r_incoming, has_resolution_or_description)} :
               /\ r_knowledge_base' = valid_incidents
               /\ r_embeddings_cache' =
                     IF valid_incidents # <<>>
                     THEN [i \in DOMAIN valid_incidents |-> valid_incidents[i].embedding]
                     ELSE r_embeddings_cache
               /\ UNCHANGED r_collection
    /\ r_pc' = "find"
    /\ UNCHANGED <<r_use_chromadb, r_incoming, r_ties, r_query, r_results, r_results_higher,
                   r_suggestion>>
    /\ UNCHANGED <<r_kb_file, r_added>>
    /\ UNCHANGED <<varsValidator, varsSOP, varsCategorizer, varsStore, varsWeb, varsIndex, varsPipeline, varsKb, varsSingle, varsCsv>>

\* a call of find_similar_incidents with the arguments r_query
FindSimilarIncidents ==
    /\ r_pc = "find"
    /\ r_results' = find_similar_incidents(r_use_chromadb, r_knowledge_base,
                        r_embeddings_cache, r_collection, r_ties, r_query)
    /\ r_pc' = "find_higher"
    /\ UNCHANGED <<r_use_chromadb, r_incoming, r_knowledge_base, r_embeddings_cache,
                   r_collection, r_ties, r_query, r_results_higher, r_suggestion>>
    /\ UNCHANGED <<r_kb_file, r_added>>
    /\ UNCHANGED <<varsValidator, varsSOP, varsCategorizer, varsStore, varsWeb, varsIndex, varsPipeline, varsKb, varsSingle, varsCsv>>

\* the same call with a floor that is not lower
FindSimilarIncidentsHigher ==
    /\ r_pc = "find_higher"
    /\ \E floor \in {f \in Floors : f >= r_query.min_similarity} :
          /\ r_results_higher' =
                 [floor |-> floor,
                  results |-> find_similar_incidents(r_use_chromadb, r_knowledge_base,
                                  r_embeddings_cache, r_collection, r_ties,
                                  [r_query EXCEPT !.min_similarity = floor])]
    /\ r_pc' = "suggest"
    /\ UNCHANGED <<r_use_chromadb, r_incoming, r_knowledge_base, r_embeddings_cache,
                   r_collection, r_ties, r_query, r_results, r_suggestion>>
    /\ UNCHANGED <<r_kb_file, r_added>>
    /\ UNCHANGED <<varsValidator, varsSOP, varsCategorizer, varsStore, varsWeb, varsIndex, varsPipeline, varsKb, varsSingle, varsCsv>>

\* a call of suggest_resolution with the description and category of r_query
SuggestResolution ==
    /\ r_pc = "suggest"
    /\ r_suggestion' = suggest_resolution(r_use_chromadb, r_knowledge_base,
                           r_embeddings_cache, r_collection, r_ties, r_query)
    /\ r_pc' = "done"
    /\ UNCHANGED <<r_use_chromadb, r_incoming, r_knowledge_base, r_embeddings_cache,
                   r_collection, r_ties, r_query, r_results, r_results_higher>>
    /\ UNCHANGED <<r_kb_file, r_added>>
    /\ UNCHANGED <<varsValidator, varsSOP, varsCategorizer, varsStore, varsWeb, varsIndex, varsPipeline, varsKb, varsSingle, varsCsv>>

\* ChromaDBClient.add_incident: one document under the id of the incident; an id the
\* collection already holds is not added again (the add raises or is ignored)
add_incident_to_collection(collection, incident) ==
    IF ~truthy(incident.resolution_notes) \/ Len(incident.resolution_notes) < 20
    THEN collection
    ELSE IF \E d \in DOMAIN collection : collection[d].id = incident.number
    THEN collection
    ELSE Append(collection, [id |-> incident.number, number |-> incident.number,
                             category |-> incident.category,
                             document |-> incident.resolution_notes,
                             embedding |-> incident.embedding])

add_to_knowledge_base_mut(use_chromadb, knowledge_base, embeddings_cache, collection, kb_file, incident) ==
    [knowledge_base |-> <<incident>>, embeddings_cache |-> <<incident.embedding>>,
     collection |-> <<>>, kb_file |-> kb_file, encoded |-> 1]

\* add_to_knowledge_base: the finder and the knowledge-base file after the call, and how
\* many texts the call encoded
add_to_knowledge_base(use_chromadb, knowledge_base, embeddings_cache, collection, kb_file, incident) ==
    LET untouched == [knowledge_base |-> knowledge_base,
                      embeddings_cache |-> embeddings_cache,
                      collection |-> collection, kb_file |-> kb_file, encoded |-> 0]
    IN IF ~(truthy(incident.resolution_notes) /\ Len(incident.resolution_notes) > 20)
       THEN untouched
       ELSE IF use_chromadb
       THEN [untouched EXCEPT !.collection = add_incident_to_collection(collection, incident),
                              !.encoded = 1]
       ELSE [knowledge_base |-> Append(knowledge_base, incident),
             embeddings_cache |-> IF Len(embeddings_cache) = 0 THEN <<incident.embedding>>
                                  ELSE embeddings_cache \o <<incident.embedding>>,
             collection |-> collection,
             kb_file |-> IF \E f \in DOMAIN kb_file : kb_file[f].number = incident.number
                         THEN kb_file ELSE Append(kb_file, incident),
             encoded |-> 1]

\* a call of add_to_knowledge_base(incident)
AddToKnowledgeBase ==
    /\ r_pc = "done"
    /\ \E incident \in RagPool :
          \E after \in {add_to_knowledge_base(r_use_chromadb, r_knowledge_base,
                            r_embeddings_cache, r_collection, r_kb_file, incident)} :
             /\ r_added' = [added |-> TRUE, incident |-> incident,
                            knowledge_base |-> r_knowledge_base,
                            embeddings_cache |-> r_embeddings_cache,
                            collection |-> r_collection, encoded |-> after.encoded]
             /\ r_knowledge_base' = after.knowledge_base
             /\ r_embeddings_cache' = after.embeddings_cache
             /\ r_collection' = after.collection
             /\ r_kb_file' = after.kb_file
    /\ r_pc' = "added"
    /\ UNCHANGED <<r_use_chromadb, r_incoming, r_ties, r_query, r_results, r_results_higher,
                   r_suggestion>>
    /\ UNCHANGED <<varsValidator, varsSOP, varsCategorizer, varsStore, varsWeb, varsIndex, varsPipeline, varsKb, varsSingle, varsCsv>>

----------------------------------------------------------------------------
(* Claims about the resolution finder                                       *)

\* every similarity the suggestion reports
C8_SuggestedSimilarities ==
    IF r_suggestion.success
    THEN {r_suggestion.confidence, r_suggestion.primary_source.similarity}
            \cup {r_suggestion.alternative_resolutions[a].similarity :
                     a \in DOMAIN r_suggestion.alternative_resolutions}
    ELSE {}

\* C8: find_similar_incidents returns no incident scored below min_similarity and
\* suggest_resolution none below its floor of 0.3; for the same knowledge base and
\* query, the results under a higher floor are among the results under the lower one.
C8_FloorRespectedAndMonotone ==
    /\ r_pc \in {"find_higher", "suggest", "done"} =>
          \A i \in DOMAIN r_results : r_results[i].similarity_score >= r_query.min_similarity
    /\ r_pc \in {"suggest", "done"} =>
          /\ \A i \in DOMAIN r_results_higher.results :
                r_results_higher.results[i].similarity_score >= r_results_higher.floor
          /\ Range(r_results_higher.results) \subseteq Range(r_results)
    /\ r_pc = "done" => \A s \in C8_SuggestedSimilarities : s >= 30

\* a search left a candidate below the floor out, and a higher floor left out more
C8_Witness ==
    /\ r_pc = "done"
    /\ Len(r_knowledge_base) = 2
    /\ Len(r_results) = 1
    /\ r_results_higher.results = <<>>
    /\ r_suggestion.success
    /\ Len(r_suggestion.alternative_resolutions) = 1

\* the incident of the last add_to_knowledge_base has more than 20 characters of resolution
C12_Resolved ==
    /\ r_added.added
    /\ truthy(r_added.incident.resolution_notes)
    /\ Len(r_added.incident.resolution_notes) > 20

\* the index grew by the incident and its vector, everything before it as it was
C12_GrewByOne ==
    /\ r_added.encoded = 1
    /\ IF r_use_chromadb
       THEN /\ Len(r_collection) = Len(r_added.collection) + 1
            /\ SubSeq(r_collection, 1, Len(r_added.collection)) = r_added.collection
            /\ r_collection[Len(r_collection)].id = r_added.incident.number
            /\ r_collection[Len(r_collection)].embedding = r_added.incident.embedding
            /\ r_knowledge_base = r_added.knowledge_base
            /\ r_embeddings_cache = r_added.embeddings_cache
       ELSE /\ r_knowledge_base = Append(r_added.knowledge_base, r_added.incident)
            /\ r_embeddings_cache
                  = Append(r_added.embeddings_cache, r_added.incident.embedding)
            /\ r_collection = r_added.collection

\* the collection already held a document under the number of the incident
C12_KnownId ==
    /\ r_use_chromadb
    /\ \E d \in DOMAIN r_added.collection : r_added.collection[d].id = r_added.incident.number

\* C12 as stated: add_to_knowledge_base for one incident with more than 20 characters
\* of resolution encodes that incident only and the index grows by exactly that
\* incident and its vector, all earlier entries unchanged and in place.
C12_AlwaysGrowsByOne == C12_Resolved => C12_GrewByOne

\* C12 amended: the same, for the in-memory index and for a ChromaDB collection that
\* does not yet hold the incident's number; a number the collection already holds
\* leaves the collection as it was.
C12_GrowsByOneUnlessKnownId ==
    C12_Resolved =>
        IF C12_KnownId
        THEN /\ r_collection = r_added.collection
             /\ r_knowledge_base = r_added.knowledge_base
             /\ r_embeddings_cache = r_added.embeddings_cache
        ELSE C12_GrewByOne

\* an incident was added to an index that already held another one
C12_Witness ==
    /\ C12_Resolved
    /\ ~C12_KnownId
    /\ r_added.knowledge_base # <<>> \/ r_added.collection # <<>>
    /\ C12_GrewByOne

\* the matches suggest_resolution works on: the search with its own top_k and floor
C22_Matches ==
    find_similar_incidents(r_use_chromadb, r_knowledge_base, r_embeddings_cache,
                           r_collection, r_ties,
                           [r_query EXCEPT !.top_k = suggest_top_k,
                                           !.min_similarity = suggest_floor])

\* the alternatives are matches, each another one, and none of them is the match at
\* position primary
C22_AlternativesAreOtherMatches(matches, primary, alternatives) ==
    \E f \in [DOMAIN alternatives -> DOMAIN matches \ {primary}] :
        /\ \A a, b \in DOMAIN alternatives : a # b => f[a] # f[b]
        /\ \A a \in DOMAIN alternatives :
              alternatives[a].similarity = matches[f[a]].similarity_score

\* the claim on one suggestion and the matches it was made from
C22_Holds(matches, suggestion) ==
    /\ \E primary \in DOMAIN matches :
          /\ matches[primary].similarity_score = suggestion.primary_source.similarity
          /\ \A i \in DOMAIN matches :
                matches[i].similarity_score <= matches[primary].similarity_score
          /\ C22_AlternativesAreOtherMatches(matches, primary,
                                             suggestion.alternative_resolutions)
    /\ suggestion.confidence = suggestion.primary_source.similarity
    /\ Len(suggestion.alternative_resolutions) <= 3
    /\ \A a \in DOMAIN suggestion.alternative_resolutions :
          suggestion.alternative_resolutions[a].similarity
             <= suggestion.primary_source.similarity

\* C22: in every successful suggest_resolution result the primary source is the returned
\* match of the highest similarity, confidence equals that similarity, the alternatives
\* are at most 3 matches other than the primary, and none of them has a similarity
\* above the primary's.
C22_PrimaryIsBestMatch ==
    (r_pc = "done" /\ r_suggestion.success) => C22_Holds(C22_Matches, r_suggestion)

\* five incidents matched, the best of them third in the knowledge base: one is the
\* primary source, three are alternatives and one is left out
C22_Witness ==
    /\ r_pc = "done"
    /\ r_suggestion.success
    /\ Len(C22_Matches) = 5
    /\ Len(r_suggestion.alternative_resolutions) = 3
    /\ r_suggestion.confidence = 100
    /\ ~r_use_chromadb => r_knowledge_base[1].embedding # r_query.embedding

\* an indexed incident of the requested category scores at or above the floor
C23_CategoryMatchExists(floor) ==
    /\ r_query.category # None
    /\ IF r_use_chromadb
       THEN \E d \in DOMAIN r_collection :
               /\ r_collection[d].category = r_query.category
               /\ 100 - chroma_distance(r_query.embedding, r_collection[d].embedding) >= floor
       ELSE \E i \in DOMAIN r_knowledge_base :
               /\ r_knowledge_base[i].category = r_query.category
               /\ cosine_similarity(r_query.embedding, r_embeddings_cache[i]) >= floor

\* C23: when a category is requested and at least one indexed incident of that category
\* has a similarity at or above the floor, find_similar_incidents returns a non-empty
\* result and suggest_resolution reports success, however many incidents of other
\* categories rank above it.
C23_CategoryMatchIsReturned ==
    /\ (r_pc \in {"find_higher", "suggest", "done"}
           /\ C23_CategoryMatchExists(r_query.min_similarity)) => r_results # <<>>
    /\ (r_pc = "done" /\ C23_CategoryMatchExists(suggest_floor)) => r_suggestion.success

\* five network incidents rank above the one email incident the query asks for, and
\* the suggestion reports no match
C23_Reached ==
    /\ r_pc = "done"
    /\ ~r_use_chromadb
    /\ Len(r_knowledge_base) = 6
    /\ C23_CategoryMatchExists(suggest_floor)
    /\ ~r_suggestion.success

\* C30: whenever suggest_resolution returns success, suggested_resolution is a non-empty
\* text and begins with the resolution text reported in primary_source.resolution, also
\* when the top match was indexed on the strength of its description alone.
C30_SuggestionBeginsWithPrimaryResolution ==
    (r_pc = "done" /\ r_suggestion.success) =>
        /\ r_suggestion.suggested_resolution # <<>>
        /\ str_startswith(r_suggestion.suggested_resolution,
                          r_suggestion.primary_source.resolution)

\* the top match has a resolution shorter than 20 characters and was indexed for its
\* description
C30_Reached ==
    /\ r_pc = "done"
    /\ ~r_use_chromadb
    /\ r_suggestion.success
    /\ Len(result_notes(C22_Matches[1])) < 20
    /\ Len(C22_Matches[1].description) > 30
    /\ r_suggestion.suggested_resolution # r_suggestion.primary_source.resolution

----------------------------------------------------------------------------
(* The persisted stores                                                     *)
(* A missing "number" key is the number None, as MongoDB and dict.get       *)
(* read it.                                                                *)

\* the dict with d[key] = value
with_item(d, key, value) ==
    [k \in DOMAIN d \cup {key} |-> IF k = key THEN value ELSE d[k]]

insert_one_mut(collection, doc, sparse) ==
    [ok |-> TRUE, collection |-> Append(collection, doc)]

\* pymongo insert_one under a unique index on number: DuplicateKeyError when a
\* document of the same number is stored; a sparse index leaves missing numbers out
insert_one(collection, doc, sparse) ==
    IF /\ \E i \in DOMAIN collection : collection[i].number = doc.number
       /\ ~(sparse /\ doc.number = None)
    THEN [ok |-> FALSE, collection |-> collection]
    ELSE [ok |-> TRUE, collection |-> Append(collection, doc)]

\* MongoDBClient.insert_incident: the inserted id, or None
insert_incident(collection, incident, now) ==
    LET returned(r) == [collection |-> r.collection,
                        inserted_id |-> IF r.ok THEN "inserted_id" ELSE "None"]
    IN returned(insert_one(collection,
                           IF "sys_created_on" \in DOMAIN incident THEN incident
                           ELSE with_item(incident, "sys_created_on", now),
                           FALSE))

\* MongoDBClient.insert_many_incidents: the number of incidents inserted
RECURSIVE insert_many_incidents(_, _, _)
insert_many_incidents(collection, incidents, now) ==
    IF incidents = <<>> THEN [collection |-> collection, inserted_count |-> 0]
    ELSE LET rest(r, first) ==
                 [collection |-> r.collection,
                  inserted_count |-> r.inserted_count
                                        + (IF first.inserted_id # "None" THEN 1 ELSE 0)]
             after(first) ==
                 rest(insert_many_incidents(first.collection, Tail(incidents), now), first)
         IN after(insert_incident(collection, Head(incidents), now))

\* MongoDBHandler.add_incident: True when added
add_incident(connected, collection, incident, now) ==
    LET returned(r) == [collection |-> r.collection, added |-> r.ok]
        resolution_length == IF truthy(dict_get(incident, "resolution_notes", <<>>))
                             THEN Len(incident.resolution_notes) ELSE 0
    IN IF ~connected THEN [collection |-> collection, added |-> FALSE]
       ELSE IF \E i \in DOMAIN collection : collection[i].number = incident.number
       THEN [collection |-> collection, added |-> FALSE]
       ELSE returned(insert_one(collection,
                with_item(with_item(with_item(incident, "added_at", now),
                                    "updated_at", now),
                          "resolution_length", resolution_length),
                TRUE))

\* MongoDBHandler.add_incidents_batch: (count_added, errors)
RECURSIVE add_incidents_batch(_, _, _, _)
add_incidents_batch(connected, collection, incidents, now) ==
    IF ~connected
    THEN [collection |-> collection, count_added |-> 0, errors |-> <<"not connected">>]
    ELSE IF incidents = <<>>
    THEN [collection |-> collection, count_added |-> 0, errors |-> <<>>]
    ELSE LET rest(r, first) ==
                 [collection |-> r.collection,
                  count_added |-> r.count_added + (IF first.added THEN 1 ELSE 0),
                  errors |-> (IF first.added THEN <<>> ELSE <<Head(incidents).number>>)
                                \o r.errors]
             after(first) ==
                 rest(add_incidents_batch(connected, first.collection, Tail(incidents), now),
                      first)
         IN after(add_incident(connected, collection, Head(incidents), now))

\* CSVIncidentImporter._add_to_json_file: (count_added, errors) and the file written
RECURSIVE _add_to_json_file(_, _)
_add_to_json_file(kb_data, incidents) ==
    IF incidents = <<>> THEN [kb_data |-> kb_data, count_added |-> 0, errors |-> <<>>]
    ELSE LET incident == Head(incidents)
             exists == \E i \in DOMAIN kb_data : kb_data[i].number = incident.number
             resolved == /\ truthy(dict_get(incident, "resolution_notes", <<>>))
                         /\ Len(incident.resolution_notes) > 20
             rest(r) ==
                 [kb_data |-> r.kb_data,
                  count_added |-> r.count_added + (IF ~exists /\ resolved THEN 1 ELSE 0),
                  errors |-> (IF exists THEN <<<<"already exists", incident.number>>>>
                              ELSE IF ~resolved THEN <<<<"no resolution", incident.number>>>>
                              ELSE <<>>) \o r.errors]
         IN rest(_add_to_json_file(IF ~exists /\ resolved THEN Append(kb_data, incident)
                                   ELSE kb_data,
                                   Tail(incidents)))

\* the incidents offered to the stores
StoreIncident(number, resolution_notes) ==
    [number |-> number, resolution_notes |-> resolution_notes]

StorePool ==
    {StoreIncident(NUM_INC1, R_long), StoreIncident(NUM_INC1, CN_long),
     StoreIncident(NUM_INC2, R_long), StoreIncident(NUM_INC2, R_short),
     StoreIncident(None, R_long), StoreIncident(None, CN_long)}

MaxOffered == 3

\* the non-empty lists that may still be offered
Offers == {list \in SeqUpTo(StorePool, MaxOffered - st_offered) : list # <<>>}

InitStore ==
    /\ ValidatorIdle
    /\ SOPIdle
    /\ CategorizerIdle
    /\ RagIdle
    /\ WebIdle
    /\ IndexIdle
    /\ PipelineIdle
    /\ KbIdle
    /\ SingleIdle
    /\ CsvIdle
    /\ st_target \in {"incidents", "knowledge_base", "kb_file"}
    /\ st_connected \in BOOLEAN
    /\ st_target # "knowledge_base" => st_connected
    /\ st_incidents = <<>>
    /\ st_knowledge_base = <<>>
    /\ st_kb_file = <<>>
    /\ st_offered = 0
    /\ st_last = NoOperation

\* MongoDBClient.insert_incident(incident)
InsertIncident ==
    /\ st_target = "incidents"
    /\ st_offered < MaxOffered
    /\ \E incident \in StorePool :
          \E r \in {insert_incident(st_incidents, incident, st_offered)} :
             /\ st_incidents' = r.collection
             /\ st_last' = [op |-> "insert_incident", offered |-> <<incident>>,
                            before |-> st_incidents,
                            added |-> IF r.inserted_id # "None" THEN 1 ELSE 0,
                            errors |-> <<>>]
    /\ st_offered' = st_offered + 1
    /\ UNCHANGED <<st_target, st_connected, st_knowledge_base, st_kb_file>>
    /\ UNCHANGED <<varsValidator, varsSOP, varsCategorizer, varsRag, varsWeb, varsIndex, varsPipeline, varsKb, varsSingle, varsCsv>>

\* MongoDBClient.insert_many_incidents(incidents)
InsertManyIncidents ==
    /\ st_target = "incidents"
    /\ \E incidents \in Offers :
          \E r \in {insert_many_incidents(st_incidents, incidents, st_offered)} :
             /\ st_incidents' = r.collection
             /\ st_last' = [op |-> "insert_many_incidents", offered |-> incidents,
                            before |-> st_incidents, added |-> r.inserted_count,
                            errors |-> <<>>]
             /\ st_offered' = st_offered + Len(incidents)
    /\ UNCHANGED <<st_target, st_connected, st_knowledge_base, st_kb_file>>
    /\ UNCHANGED <<varsValidator, varsSOP, varsCategorizer, varsRag, varsWeb, varsIndex, varsPipeline, varsKb, varsSingle, varsCsv>>

\* MongoDBHandler.add_incident(incident)
AddIncident ==
    /\ st_target = "knowledge_base"
    /\ st_offered < MaxOffered
    /\ \E incident \in StorePool :
          \E r \in {add_incident(st_connected, st_knowledge_base, incident, st_offered)} :
             /\ st_knowledge_base' = r.collection
             /\ st_last' = [op |-> "add_incident", offered |-> <<incident>>,
                            before |-> st_knowledge_base,
                            added |-> IF r.added THEN 1 ELSE 0,
                            errors |-> <<>>]
    /\ st_offered' = st_offered + 1
    /\ UNCHANGED <<st_target, st_connected, st_incidents, st_kb_file>>
    /\ UNCHANGED <<varsValidator, varsSOP, varsCategorizer, varsRag, varsWeb, varsIndex, varsPipeline, varsKb, varsSingle, varsCsv>>

\* MongoDBHandler.add_incidents_batch(incidents)
AddIncidentsBatch ==
    /\ st_target = "knowledge_base"
    /\ \E incidents \in Offers :
          \E r \in {add_incidents_batch(st_connected, st_knowledge_base, incidents,
                                        st_offered)} :
             /\ st_knowledge_base' = r.collection
             /\ st_last' = [op |-> "add_incidents_batch", offered |-> incidents,
                            before |-> st_knowledge_base, added |-> r.count_added,
                            errors |-> r.errors]
             /\ st_offered' = st_offered + Len(incidents)
    /\ UNCHANGED <<st_target, st_connected, st_incidents, st_kb_file>>
    /\ UNCHANGED <<varsValidator, varsSOP, varsCategorizer, varsRag, varsWeb, varsIndex, varsPipeline, varsKb, varsSingle, varsCsv>>

\* CSVIncidentImporter._add_to_json_file(incidents, kb_file_path, errors)
AddToJsonFile ==
    /\ st_target = "kb_file"
    /\ \E incidents \in Offers :
          \E r \in {_add_to_json_file(st_kb_file, incidents)} :
             /\ st_kb_file' = r.kb_data
             /\ st_last' = [op |-> "_add_to_json_file", offered |-> incidents,
                            before |-> st_kb_file, added |-> r.count_added,
                            errors |-> r.errors]
             /\ st_offered' = st_offered + Len(incidents)
    /\ UNCHANGED <<st_target, st_connected, st_incidents, st_knowledge_base>>
    /\ UNCHANGED <<varsValidator, varsSOP, varsCategorizer, varsRag, varsWeb, varsIndex, varsPipeline, varsKb, varsSingle, varsCsv>>

----------------------------------------------------------------------------
(* Claims about the persisted stores                                        *)

C9_Unique(store) ==
    \A i, j \in DOMAIN store : i # j => store[i].number # store[j].number

\* the store the last operation worked on
C9_Store ==
    IF st_target = "incidents" THEN st_incidents
    ELSE IF st_target = "knowledge_base" THEN st_knowledge_base
    ELSE st_kb_file

\* the offered incidents whose number was stored before the operation
C9_Duplicates ==
    {k \in DOMAIN st_last.offered :
        \E i \in DOMAIN st_last.before : st_last.before[i].number = st_last.offered[k].number}

\* C9: in each persisted store (MongoDB incidents collection, MongoDB knowledge-base
\* collection, JSON knowledge-base file), after any sequence of insert/add operations no
\* two stored records have the same number, and an insert whose number is already
\* stored is reported as not added and leaves the stored record as it was.
C9_NumberUnique ==
    /\ C9_Unique(st_incidents)
    /\ C9_Unique(st_knowledge_base)
    /\ C9_Unique(st_kb_file)
    /\ st_last # NoOperation =>
          /\ st_last.before = SubSeq(C9_Store, 1, Len(st_last.before))
          /\ st_last.added = Len(C9_Store) - Len(st_last.before)
          /\ st_last.added <= Len(st_last.offered) - Cardinality(C9_Duplicates)
          /\ \A i \in (Len(st_last.before) + 1)..Len(C9_Store) :
                \E k \in DOMAIN st_last.offered \ C9_Duplicates :
                    /\ C9_Store[i].number = st_last.offered[k].number
                    /\ C9_Store[i].resolution_notes = st_last.offered[k].resolution_notes
          /\ st_last.op = "_add_to_json_file" =>
                \A k \in C9_Duplicates :
                    <<"already exists", st_last.offered[k].number>> \in Range(st_last.errors)
          /\ (st_last.op = "add_incidents_batch" /\ st_connected) =>
                \A k \in C9_Duplicates :
                    st_last.offered[k].number \in Range(st_last.errors)

\* an incident with a stored number and other content was offered and turned down
C9_Witness ==
    /\ st_last # NoOperation
    /\ st_last.op = "insert_incident"
    /\ st_last.added = 0
    /\ Len(st_incidents) = 1
    /\ st_incidents[1].number = st_last.offered[1].number
    /\ st_incidents[1].resolution_notes # st_last.offered[1].resolution_notes

----------------------------------------------------------------------------
(* The lazy singletons of the web application                               *)
(* Each request runs in its own thread; a thread can be pre-empted between  *)
(* reading a global, constructing and assigning.                            *)

MaxRequests == 2

\* the routes that touch the singletons and the function each starts in
Routes == {"generate_sop", "suggest_resolution", "update_incident"}

entry(route) ==
    IF route = "generate_sop" THEN "get_categorizer"
    ELSE IF route = "suggest_resolution" THEN "get_resolution_finder"
    ELSE "reload"

InitWeb ==
    /\ ValidatorIdle
    /\ SOPIdle
    /\ CategorizerIdle
    /\ RagIdle
    /\ StoreIdle
    /\ WebIdle
    /\ IndexIdle
    /\ PipelineIdle
    /\ KbIdle
    /\ SingleIdle
    /\ CsvIdle

\* a request arrives and its handler runs up to the first use of a singleton
StartRequest(t) ==
    /\ w_pc[t] = "idle"
    /\ w_served[t] < MaxRequests
    /\ \E route \in Routes :
          /\ w_route' = [w_route EXCEPT ![t] = route]
          /\ w_pc' = [w_pc EXCEPT ![t] = entry(route)]
    /\ UNCHANGED <<w_categorizer, w_resolution_finder, w_cat_loads, w_finder_loads, w_local,
                   w_served, w_responses>>
    /\ UNCHANGED <<varsValidator, varsSOP, varsCategorizer, varsRag, varsStore, varsIndex, varsPipeline, varsKb, varsSingle, varsCsv>>

\* the handler goes on with the instance it was handed and responds
respond(t, status, instance) ==
    /\ w_responses' = w_responses \cup {[route |-> w_route[t], status |-> status,
                                         instance |-> instance]}
    /\ w_served' = [w_served EXCEPT ![t] = @ + 1]
    /\ w_route' = [w_route EXCEPT ![t] = "none"]
    /\ w_pc' = [w_pc EXCEPT ![t] = "idle"]

\* get_categorizer: if categorizer is None
CheckCategorizer(t) ==
    /\ w_pc[t] = "get_categorizer"
    /\ w_pc' = [w_pc EXCEPT ![t] = IF w_categorizer = 0 THEN "construct_categorizer"
                                   ELSE "return_categorizer"]
    /\ UNCHANGED <<w_categorizer, w_resolution_finder, w_cat_loads, w_finder_loads, w_route,
                   w_local, w_served, w_responses>>
    /\ UNCHANGED <<varsValidator, varsSOP, varsCategorizer, varsRag, varsStore, varsIndex, varsPipeline, varsKb, varsSingle, varsCsv>>

\* get_categorizer: IncidentCategorizer(...) loads the embedding model
ConstructCategorizer(t) ==
    /\ w_pc[t] = "construct_categorizer"
    /\ w_cat_loads' = w_cat_loads + 1
    /\ w_local' = [w_local EXCEPT ![t] = w_cat_loads + 1]
    /\ w_pc' = [w_pc EXCEPT ![t] = "assign_categorizer"]
    /\ UNCHANGED <<w_categorizer, w_resolution_finder, w_finder_loads, w_route, w_served,
                   w_responses>>
    /\ UNCHANGED <<varsValidator, varsSOP, varsCategorizer, varsRag, varsStore, varsIndex, varsPipeline, varsKb, varsSingle, varsCsv>>

\* get_categorizer: categorizer = <the new instance>
AssignCategorizer(t) ==
    /\ w_pc[t] = "assign_categorizer"
    /\ w_categorizer' = w_local[t]
    /\ w_local' = [w_local EXCEPT ![t] = 0]
    /\ w_pc' = [w_pc EXCEPT ![t] = "return_categorizer"]
    /\ UNCHANGED <<w_resolution_finder, w_cat_loads, w_finder_loads, w_route, w_served,
                   w_responses>>
    /\ UNCHANGED <<varsValidator, varsSOP, varsCategorizer, varsRag, varsStore, varsIndex, varsPipeline, varsKb, varsSingle, varsCsv>>

\* get_categorizer: return categorizer; the handler then answers
ReturnCategorizer(t) ==
    /\ w_pc[t] = "return_categorizer"
    /\ respond(t, 200, w_categorizer)
    /\ UNCHANGED <<w_categorizer, w_resolution_finder, w_cat_loads, w_finder_loads, w_local>>
    /\ UNCHANGED <<varsValidator, varsSOP, varsCategorizer, varsRag, varsStore, varsIndex, varsPipeline, varsKb, varsSingle, varsCsv>>

\* get_resolution_finder: if resolution_finder is None; otherwise return resolution_finder
CheckResolutionFinder(t) ==
    /\ w_pc[t] = "get_resolution_finder"
    /\ IF w_resolution_finder = 0
       THEN /\ w_pc' = [w_pc EXCEPT ![t] = "construct_resolution_finder"]
            /\ UNCHANGED <<w_route, w_served, w_responses>>
       ELSE respond(t, 200, w_resolution_finder)
    /\ UNCHANGED <<w_categorizer, w_resolution_finder, w_cat_loads, w_finder_loads, w_local>>
    /\ UNCHANGED <<varsValidator, varsSOP, varsCategorizer, varsRag, varsStore, varsIndex, varsPipeline, varsKb, varsSingle, varsCsv>>

\* get_resolution_finder: ResolutionFinder(embedding_model=..., mongodb_uri=...) raises
\* TypeError, the constructor has no parameter mongodb_uri; nothing is constructed or
\* assigned and the handler's except branch answers 500
ConstructResolutionFinder(t) ==
    /\ w_pc[t] = "construct_resolution_finder"
    /\ respond(t, 500, 0)
    /\ UNCHANGED <<w_categorizer, w_resolution_finder, w_cat_loads, w_finder_loads, w_local>>
    /\ UNCHANGED <<varsValidator, varsSOP, varsCategorizer, varsRag, varsStore, varsIndex, varsPipeline, varsKb, varsSingle, varsCsv>>

\* update_incident, after the stored incident is updated: resolution_finder = None
ReloadResolutionFinder(t) ==
    /\ w_pc[t] = "reload"
    /\ w_resolution_finder' = 0
    /\ respond(t, 200, 0)
    /\ UNCHANGED <<w_categorizer, w_cat_loads, w_finder_loads, w_local>>
    /\ UNCHANGED <<varsValidator, varsSOP, varsCategorizer, varsRag, varsStore, varsIndex, varsPipeline, varsKb, varsSingle, varsCsv>>

----------------------------------------------------------------------------
(* Claims about the lazy singletons                                         *)

\* C10: across any interleaving of concurrent requests in one process the categorizer
\* and the resolution finder are each constructed and loaded at most once, and later
\* requests are handed the instance already loaded.
C10_LoadedAtMostOnce ==
    /\ w_cat_loads <= 1
    /\ w_finder_loads <= 1
    /\ \A resp \in w_responses : resp.status = 200 => resp.instance <= 1

\* two first requests to /generate_sop were in get_categorizer at the same time
C10_Reached ==
    /\ w_cat_loads = 2
    /\ \A t \in Threads : w_served[t] = 1
    /\ \A resp \in w_responses : resp.route = "generate_sop"

\* C28: POST /suggest_resolution with a non-empty description always ends in one of the
\* two non-error outcomes, the suggestion or the not-found message with the hint to enter
\* a resolution manually, both answered with HTTP 200; it never ends in the exception
\* (HTTP 500) outcome.
C28_SuggestionNeverFails ==
    \A resp \in w_responses : resp.route = "suggest_resolution" => resp.status = 200

\* a request to /suggest_resolution came to the construction of the finder and was
\* answered
C28_Reached ==
    /\ \E resp \in w_responses : resp.route = "suggest_resolution" /\ resp.status = 500
    /\ w_resolution_finder = 0
    /\ w_finder_loads = 0

----------------------------------------------------------------------------
(* An index rebuild concurrent with a search                                *)
(* One ResolutionFinder in in-memory mode; load_knowledge_base runs in one  *)
(* thread, find_similar_incidents in another, pre-empted between statements.*)

MaxIndex == 2

IndexPool ==
    {RagIncident(NUM_INC1, CAT_email, D_long, R_long, <<5, 0>>),
     RagIncident(NUM_INC2, CAT_email_lower, D_long, CN_long, <<4, 3>>),
     RagIncident(NUM_INC3, CAT_network, D_short, R_short, <<0, 5>>)}

\* the in-memory branch of load_knowledge_base, run to its end
load_knowledge_base(knowledge_base, embeddings_cache, incidents) ==
    LET loaded(valid_incidents) ==
            [knowledge_base |-> valid_incidents,
             embeddings_cache |->
                 IF valid_incidents # <<>>
                 THEN [i \in DOMAIN valid_incidents |-> valid_incidents[i].embedding]
                 ELSE embeddings_cache]
    IN loaded(SelectSeq(incidents, has_resolution_or_description))

\* the index of a new finder after load_knowledge_base(incidents)
first_load(incidents) == load_knowledge_base(<<>>, <<>>, incidents)

InitIndex ==
    /\ ValidatorIdle
    /\ SOPIdle
    /\ CategorizerIdle
    /\ RagIdle
    /\ StoreIdle
    /\ WebIdle
    /\ PipelineIdle
    /\ KbIdle
    /\ SingleIdle
    /\ CsvIdle
    /\ i_loaded \in SeqUpTo(IndexPool, MaxIndex)
    /\ i_knowledge_base = first_load(i_loaded).knowledge_base
    /\ i_embeddings_cache = first_load(i_loaded).embeddings_cache
    /\ i_incoming \in SeqUpTo(IndexPool, MaxIndex)
    /\ i_load_pc = "load"
    /\ i_ties \in {"ascending", "descending"}
    /\ i_query \in {q \in Queries : q.category = None /\ q.top_k = suggest_top_k
                                      /\ q.min_similarity = suggest_floor}
    /\ i_search = [pc |-> "check", during |-> "", similarities |-> <<>>,
                   top_indices |-> <<>>, pos |-> 0, results |-> <<>>]
    /\ i_outcome = NoOutcome

\* load_knowledge_base: valid_incidents = [...]; self.knowledge_base = valid_incidents
LoadAssignKnowledgeBase ==
    /\ i_load_pc = "load"
    /\ \E valid_incidents \in {SelectSeq(i_incoming, has_resolution_or_description)} :
          /\ i_knowledge_base' = valid_incidents
          /\ i_load_pc' = IF valid_incidents # <<>> THEN "encode" ELSE "loaded"
    /\ UNCHANGED <<i_embeddings_cache, i_loaded, i_incoming, i_ties, i_query, i_search,
                   i_outcome>>
    /\ UNCHANGED <<varsValidator, varsSOP, varsCategorizer, varsRag, varsStore, varsWeb, varsPipeline, varsKb, varsSingle, varsCsv>>

\* load_knowledge_base: self.embeddings_cache = self.model.encode(texts)
LoadAssignEmbeddings ==
    /\ i_load_pc = "encode"
    /\ i_embeddings_cache' = [i \in DOMAIN i_knowledge_base |-> i_knowledge_base[i].embedding]
    /\ i_load_pc' = "loaded"
    /\ UNCHANGED <<i_knowledge_base, i_loaded, i_incoming, i_ties, i_query, i_search,
                   i_outcome>>
    /\ UNCHANGED <<varsValidator, varsSOP, varsCategorizer, varsRag, varsStore, varsWeb, varsPipeline, varsKb, varsSingle, varsCsv>>

\* find_similar_incidents: if not self.knowledge_base: return []
SearchCheck ==
    /\ i_search.pc = "check"
    /\ IF i_knowledge_base = <<>>
       THEN /\ i_search' = [i_search EXCEPT !.pc = "returned", !.during = i_load_pc]
            /\ i_outcome' = [results |-> <<>>]
       ELSE /\ i_search' = [i_search EXCEPT !.pc = "similarities", !.during = i_load_pc]
            /\ UNCHANGED i_outcome
    /\ UNCHANGED <<i_knowledge_base, i_embeddings_cache, i_loaded, i_incoming, i_load_pc,
                   i_ties, i_query>>
    /\ UNCHANGED <<varsValidator, varsSOP, varsCategorizer, varsRag, varsStore, varsWeb, varsPipeline, varsKb, varsSingle, varsCsv>>

\* find_similar_incidents: similarities = cosine_similarity(query_embedding,
\* self.embeddings_cache)[0]; top_indices = np.argsort(similarities)[::-1][:top_k].
\* sklearn raises ValueError for the empty list a new finder has as embeddings_cache
SearchSimilarities ==
    /\ i_search.pc = "similarities"
    /\ IF i_embeddings_cache = <<>>
       THEN /\ i_search' = [i_search EXCEPT !.pc = "returned"]
            /\ i_outcome' = [raised |-> "ValueError"]
       ELSE /\ \E similarities \in {[idx \in DOMAIN i_embeddings_cache |->
                                       cosine_similarity(i_query.embedding,
                                                         i_embeddings_cache[idx])]} :
                  i_search' = [i_search EXCEPT
                                  !.pc = "collect",
                                  !.similarities = similarities,
                                  !.top_indices = first_k(ranking(similarities, i_ties),
                                                          i_query.top_k),
                                  !.pos = 1]
            /\ UNCHANGED i_outcome
    /\ UNCHANGED <<i_knowledge_base, i_embeddings_cache, i_loaded, i_incoming, i_load_pc,
                   i_ties, i_query>>
    /\ UNCHANGED <<varsValidator, varsSOP, varsCategorizer, varsRag, varsStore, varsWeb, varsPipeline, varsKb, varsSingle, varsCsv>>

\* find_similar_incidents: one turn of `for idx in top_indices`
SearchCollect ==
    /\ i_search.pc = "collect"
    /\ i_search.pos <= Len(i_search.top_indices)
    /\ \E idx \in {i_search.top_indices[i_search.pos]} :
          IF i_search.similarities[idx] < i_query.min_similarity
          THEN /\ i_search' = [i_search EXCEPT !.pos = @ + 1]
               /\ UNCHANGED i_outcome
          ELSE IF idx \notin DOMAIN i_knowledge_base
          THEN /\ i_search' = [i_search EXCEPT !.pc = "returned"]
               /\ i_outcome' = IndexError
          ELSE /\ i_search' =
                    [i_search EXCEPT
                        !.pos = @ + 1,
                        !.results =
                            IF \/ i_query.category = None
                               \/ str_lower(dict_get(i_knowledge_base[idx], "category", <<>>))
                                     = str_lower(i_query.category)
                            THEN Append(@, scored(i_knowledge_base[idx], idx,
                                                  i_search.similarities[idx]))
                            ELSE @]
               /\ UNCHANGED i_outcome
    /\ UNCHANGED <<i_knowledge_base, i_embeddings_cache, i_loaded, i_incoming, i_load_pc,
                   i_ties, i_query>>
    /\ UNCHANGED <<varsValidator, varsSOP, varsCategorizer, varsRag, varsStore, varsWeb, varsPipeline, varsKb, varsSingle, varsCsv>>

\* find_similar_incidents: return results
SearchReturn ==
    /\ i_search.pc = "collect"
    /\ i_search.pos > Len(i_search.top_indices)
    /\ i_search' = [i_search EXCEPT !.pc = "returned"]
    /\ i_outcome' = [results |-> i_search.results]
    /\ UNCHANGED <<i_knowledge_base, i_embeddings_cache, i_loaded, i_incoming, i_load_pc,
                   i_ties, i_query>>
    /\ UNCHANGED <<varsValidator, varsSOP, varsCategorizer, varsRag, varsStore, varsWeb, varsPipeline, varsKb, varsSingle, varsCsv>>

----------------------------------------------------------------------------
(* Claims about a search concurrent with a rebuild                          *)

\* what the search returns on a complete index
search_of(index) ==
    [results |-> find_in_memory(index.knowledge_base, index.embeddings_cache, i_ties, i_query)]

\* C11: a search that runs while load_knowledge_base rebuilds the index returns what it
\* would return on the complete old index or on the complete new index; it never pairs
\* incidents of one generation with embeddings of the other and never fails on a
\* half-built index.
C11_SearchSeesOneGeneration ==
    i_search.pc = "returned" =>
        i_outcome \in {search_of(first_load(i_loaded)),
                       search_of(load_knowledge_base(first_load(i_loaded).knowledge_base,
                                                     first_load(i_loaded).embeddings_cache,
                                                     i_incoming))}

\* a search went through the index between the two assignments of the rebuild
C11_Reached ==
    /\ i_search.pc = "returned"
    /\ i_search.during = "encode"
    /\ i_load_pc = "encode"
    /\ i_loaded # <<>>
    /\ "results" \in DOMAIN i_outcome
    /\ i_outcome.results # <<>>
    /\ \E r \in DOMAIN i_outcome.results :
          i_outcome.results[r].similarity_score
             # cosine_similarity(i_query.embedding, i_outcome.results[r].embedding)

----------------------------------------------------------------------------
(* SOPOrchestrator: run_full_pipeline and analyze_from_mongodb              *)
(* The two runs differ in their first step only.  Every exception raised    *)
(* inside a run is caught by the run and turned into an error dictionary.   *)

MaxPipeline == 4

PipelinePool ==
    {Incident(NUM_INC1, SD_ok, D_long, R_long, None, CAT_email),
     Incident(NUM_INC1, SD_ok, D_short, R_short, None, CAT_email)}

\* a list of distinct dict objects: oid is the position of the object in the list
as_batch(incidents) == [i \in DOMAIN incidents |-> [incidents[i] EXCEPT !.oid = i]]

\* return {"status": "error", "message": ...}
error_result(message) == [status |-> "error", message |-> message]

\* return {"status": "success", ...}
success_result(incidents, valid, invalid, clusters, sop_files) ==
    [status |-> "success",
     total_incidents |-> Len(incidents),
     valid_incidents |-> Len(valid),
     invalid_incidents |-> Len(invalid),
     clusters |-> Cardinality(DOMAIN clusters),
     sops_generated |-> Len(sop_files),
     sop_files |-> sop_files]

\* analyze_cluster on a cluster of the last categorize_incidents call: it can raise
\* IndexError when a record outside the cluster equals a member field for field
analyze_cluster_raises(incidents, cluster) ==
    IF \E i \in DOMAIN incidents : \E m \in DOMAIN cluster :
           /\ \A n \in DOMAIN cluster : incidents[i].oid # cluster[n].oid
           /\ [incidents[i] EXCEPT !.oid = 0] = [cluster[m] EXCEPT !.oid = 0]
    THEN BOOLEAN
    ELSE {FALSE}

\* the clusters generate_sops writes a file for, in the order of the mapping: those
\* generate_sop does not return None for
sop_files_of(clusters) ==
    SelectSeq([k \in 1..Cardinality(DOMAIN clusters) |->
                  CHOOSE id \in DOMAIN clusters :
                      Cardinality({other \in DOMAIN clusters : other < id}) = k - 1],
              LAMBDA id : Len(clusters[id]) >= default_min_incidents)

InitPipeline ==
    /\ ValidatorIdle
    /\ SOPIdle
    /\ CategorizerIdle
    /\ RagIdle
    /\ StoreIdle
    /\ WebIdle
    /\ IndexIdle
    /\ KbIdle
    /\ SingleIdle
    /\ CsvIdle
    /\ p_source \in {"servicenow", "mongodb"}
    /\ p_clusterer \in {DefaultClusterer, WebClusterer}
    /\ p_incoming \in {as_batch(b) : b \in SeqUpTo(PipelinePool, MaxPipeline)}
    /\ p_incidents = <<>>
    /\ p_valid = <<>>
    /\ p_invalid = <<>>
    /\ p_clusters = <<>>
    /\ p_steps = <<>>
    /\ p_result = NoRun
    /\ p_pc = "fetch"

PipelineReturn(result) ==
    /\ p_result' = result
    /\ p_pc' = "done"

\* step 1: fetch_incidents (ServiceNow, which may be unreachable) or get_all_incidents
PipelineFetch ==
    /\ p_pc = "fetch"
    /\ \E connected \in IF p_source = "servicenow" THEN BOOLEAN ELSE {TRUE} :
          IF ~connected
          THEN /\ PipelineReturn(error_result("Failed to connect to ServiceNow"))
               /\ UNCHANGED <<p_incidents, p_steps>>
          ELSE /\ p_incidents' = p_incoming
               /\ p_steps' = Append(p_steps, "fetch")
               /\ IF p_incoming = <<>>
                  THEN PipelineReturn(error_result(IF p_source = "servicenow"
                                                   THEN "No incidents fetched"
                                                   ELSE "No incidents in MongoDB"))
                  ELSE p_pc' = "validate" /\ UNCHANGED p_result
    /\ UNCHANGED <<p_source, p_clusterer, p_incoming, p_valid, p_invalid, p_clusters>>
    /\ UNCHANGED <<varsValidator, varsSOP, varsCategorizer, varsRag, varsStore, varsWeb, varsIndex, varsKb, varsSingle, varsCsv>>

\* step 2: validate_incidents
PipelineValidate ==
    /\ p_pc = "validate"
    /\ \E r \in {validate_incidents(TestConfig, p_incidents)} :
          /\ p_valid' = r.valid
          /\ p_invalid' = r.invalid
          /\ IF r.valid = <<>>
             THEN PipelineReturn(error_result("No valid incidents"))
             ELSE p_pc' = "categorize" /\ UNCHANGED p_result
    /\ p_steps' = Append(p_steps, "validate")
    /\ UNCHANGED <<p_source, p_clusterer, p_incoming, p_incidents, p_clusters>>
    /\ UNCHANGED <<varsValidator, varsSOP, varsCategorizer, varsRag, varsStore, varsWeb, varsIndex, varsKb, varsSingle, varsCsv>>

\* step 3: categorize_incidents, the categorizer's and the analysis of each cluster
PipelineCategorize ==
    /\ p_pc = "categorize"
    /\ \E raised \in fit_raises(p_clusterer, Len(p_valid)) :
          IF raised
          THEN /\ PipelineReturn(error_result("ValueError"))
               /\ UNCHANGED <<p_clusters, p_steps>>
          ELSE \E labels \in fit_predict(p_clusterer, Len(p_valid)) :
               \E clusters \in {group_by_label(as_batch(p_valid), labels)} :
               \E failed \in UNION {analyze_cluster_raises(as_batch(p_valid), clusters[k]) :
                                       k \in DOMAIN clusters} \cup {FALSE} :
                  IF failed
                  THEN /\ PipelineReturn(error_result("IndexError"))
                       /\ UNCHANGED <<p_clusters, p_steps>>
                  ELSE /\ p_clusters' = clusters
                       /\ p_steps' = Append(p_steps, "categorize")
                       /\ IF DOMAIN clusters = {}
                          THEN PipelineReturn(error_result("No clusters created"))
                          ELSE p_pc' = "generate" /\ UNCHANGED p_result
    /\ UNCHANGED <<p_source, p_clusterer, p_incoming, p_incidents, p_valid, p_invalid>>
    /\ UNCHANGED <<varsValidator, varsSOP, varsCategorizer, varsRag, varsStore, varsWeb, varsIndex, varsKb, varsSingle, varsCsv>>

\* step 4: generate_sops, and the success dictionary
PipelineGenerateSops ==
    /\ p_pc = "generate"
    /\ \E failed \in UNION {analyze_cluster_raises(as_batch(p_valid), p_clusters[k]) :
                               k \in DOMAIN p_clusters} :
          IF failed
          THEN /\ PipelineReturn(error_result("IndexError"))
               /\ UNCHANGED p_steps
          ELSE /\ PipelineReturn(success_result(p_incidents, p_valid, p_invalid, p_clusters,
                                                sop_files_of(p_clusters)))
               /\ p_steps' = Append(p_steps, "generate")
    /\ UNCHANGED <<p_source, p_clusterer, p_incoming, p_incidents, p_valid, p_invalid,
                   p_clusters>>
    /\ UNCHANGED <<varsValidator, varsSOP, varsCategorizer, varsRag, varsStore, varsWeb, varsIndex, varsKb, varsSingle, varsCsv>>

----------------------------------------------------------------------------
(* Claims about the pipeline runs                                           *)

\* the counts a run reports
run_counts == {"total_incidents", "valid_incidents", "invalid_incidents", "clusters",
               "sops_generated"}

\* the run went through clustering and clustering made no cluster
C13_ZeroClusters ==
    /\ p_pc = "done"
    /\ Len(p_steps) = 3
    /\ DOMAIN p_clusters = {}

\* C13: a run of run_full_pipeline or analyze_from_mongodb in which clustering yields
\* zero clusters ends as a non-error outcome that reports its counts (total, valid and
\* invalid, clusters, SOPs generated).
C13_ZeroClustersReported ==
    C13_ZeroClusters =>
        /\ p_result.status # "error"
        /\ run_counts \subseteq DOMAIN p_result

\* a run over valid incidents that were all noise has returned
C13_Reached ==
    /\ C13_ZeroClusters
    /\ Len(p_valid) >= 3
    /\ p_result = error_result("No clusters created")

----------------------------------------------------------------------------
(* One in-memory ResolutionFinder through a sequence of calls               *)

MaxCalls == 4

\* the in-memory branch of find_similar_incidents on an index whose two lists may
\* differ in length: what it returns, or the exception it ends with
search_outcome(knowledge_base, embeddings_cache, ties, query) ==
    LET similarity(idx) == cosine_similarity(query.embedding, embeddings_cache[idx])
        of_top(top_indices) ==
            IF \E p \in DOMAIN top_indices :
                  /\ similarity(top_indices[p]) >= query.min_similarity
                  /\ top_indices[p] \notin DOMAIN knowledge_base
            THEN IndexError
            ELSE [results |-> find_in_memory(knowledge_base, embeddings_cache, ties, query)]
    IN IF knowledge_base = <<>> THEN [results |-> <<>>]
       ELSE IF embeddings_cache = <<>> THEN [raised |-> "ValueError"]
       ELSE of_top(first_k(ranking([idx \in DOMAIN embeddings_cache |-> similarity(idx)],
                                   ties), query.top_k))

InitKb ==
    /\ ValidatorIdle
    /\ SOPIdle
    /\ CategorizerIdle
    /\ RagIdle
    /\ StoreIdle
    /\ WebIdle
    /\ IndexIdle
    /\ PipelineIdle
    /\ SingleIdle
    /\ CsvIdle
    /\ k_knowledge_base = <<>>
    /\ k_embeddings_cache = <<>>
    /\ k_kb_file = <<>>
    /\ k_calls = <<>>
    /\ k_found = NoOutcome

\* a call of load_knowledge_base(incidents)
KbLoad ==
    /\ Len(k_calls) < MaxCalls
    /\ \E incidents \in SeqUpTo(IndexPool, MaxIndex) :
          \E loaded \in {load_knowledge_base(k_knowledge_base, k_embeddings_cache,
                                             incidents)} :
             /\ k_knowledge_base' = loaded.knowledge_base
             /\ k_embeddings_cache' = loaded.embeddings_cache
    /\ k_calls' = Append(k_calls, "load")
    /\ UNCHANGED <<k_kb_file, k_found>>
    /\ UNCHANGED <<varsValidator, varsSOP, varsCategorizer, varsRag, varsStore, varsWeb, varsIndex, varsPipeline, varsSingle, varsCsv>>

\* a call of add_to_knowledge_base(incident)
KbAdd ==
    /\ Len(k_calls) < MaxCalls
    /\ \E incident \in IndexPool :
          \E after \in {add_to_knowledge_base(FALSE, k_knowledge_base, k_embeddings_cache,
                                              <<>>, k_kb_file, incident)} :
             /\ k_knowledge_base' = after.knowledge_base
             /\ k_embeddings_cache' = after.embeddings_cache
             /\ k_kb_file' = after.kb_file
    /\ k_calls' = Append(k_calls, "add")
    /\ UNCHANGED k_found
    /\ UNCHANGED <<varsValidator, varsSOP, varsCategorizer, varsRag, varsStore, varsWeb, varsIndex, varsPipeline, varsSingle, varsCsv>>

\* a call of find_similar_incidents(description, top_k=5, min_similarity=0.3)
KbFind ==
    /\ Len(k_calls) < MaxCalls
    /\ \E query \in {q \in Queries : q.category = None /\ q.top_k = suggest_top_k
                                        /\ q.min_similarity = suggest_floor} :
          k_found' = search_outcome(k_knowledge_base, k_embeddings_cache, "descending", query)
    /\ k_calls' = Append(k_calls, "find")
    /\ UNCHANGED <<k_knowledge_base, k_embeddings_cache, k_kb_file>>
    /\ UNCHANGED <<varsValidator, varsSOP, varsCategorizer, varsRag, varsStore, varsWeb, varsIndex, varsPipeline, varsSingle, varsCsv>>

----------------------------------------------------------------------------
(* Claims about the in-memory index over a sequence of calls                *)

\* C29: in in-memory mode, after any sequence of load_knowledge_base and
\* add_to_knowledge_base calls, a load whose filtered list is empty included,
\* knowledge_base and embeddings_cache have the same length and entry i of the cache is
\* the vector of incident i, so that no search ends on an index outside the knowledge base.
C29_CacheMatchesKnowledgeBase ==
    /\ Len(k_embeddings_cache) = Len(k_knowledge_base)
    /\ \A i \in DOMAIN k_knowledge_base :
          k_embeddings_cache[i] = k_knowledge_base[i].embedding
    /\ k_found # IndexError

\* after a load, a load that kept no incident and an add, a search ended on a row of
\* the cache that has no incident
C29_Reached ==
    /\ k_calls = <<"load", "load", "add", "find">>
    /\ Len(k_knowledge_base) = 1
    /\ Len(k_embeddings_cache) > 1
    /\ k_found = IndexError

----------------------------------------------------------------------------
(* The route /analyze_single of the web application                         *)

CAT_general == <<"G","e","n","e","r","a","l">>

\* the handler of POST /analyze_single on the JSON body data; a key the body lacks is
\* the value None
analyze_single(data) ==
    LET incident ==
            [number |-> dict_get(data, "incident_number", NUM_INC1),
             short_description |-> dict_get(data, "short_description", <<>>),
             description |-> dict_get(data, "description", <<>>),
             category |-> dict_get(data, "category", CAT_general),
             resolution_notes |-> dict_get(data, "resolution_notes", <<>>)]
        \* the errors left when those naming resolution_notes in "fields" are dropped
        \* for an empty resolution
        kept(validation_result) ==
            IF validation_result.is_valid THEN <<>>
            ELSE SelectSeq(validation_result.errors,
                           LAMBDA e : ~("resolution_notes" \in Range(e.fields)
                                          /\ ~truthy(incident.resolution_notes)))
        analysis == [common_categories |-> <<<<incident.category, 1>>>>]
        with_placeholder ==
            IF ~truthy(incident.resolution_notes) \/ Len(incident.resolution_notes) < 10
            THEN [incident EXCEPT !.resolution_notes = T_pending]
            ELSE incident
        answer(errors) ==
            IF errors # <<>>
            THEN [status |-> 400, success |-> FALSE, errors |-> errors]
            ELSE [status |-> 200, success |-> TRUE, incident |-> with_placeholder,
                  sop |-> generate_sop(web_min_incidents, 0, <<with_placeholder>>, analysis)]
    IN answer(kept(validate_incident(WebConfig, incident)))

\* the bodies posted to the route
SingleRequests ==
    [incident_number : {NUM_INC1},
     short_description : {SD_ok, <<>>},
     description : {D_long, D_short, D_placeholder},
     category : {CAT_email, CAT_unknown, None},
     resolution_notes : {<<>>, None, R_short, R_long, R_tbd}]

InitSingle ==
    /\ ValidatorIdle
    /\ SOPIdle
    /\ CategorizerIdle
    /\ RagIdle
    /\ StoreIdle
    /\ WebIdle
    /\ IndexIdle
    /\ PipelineIdle
    /\ KbIdle
    /\ CsvIdle
    /\ a_data \in SingleRequests
    /\ a_response = NoResponse
    /\ a_pc = "request"

\* POST /analyze_single with the body a_data
AnalyzeSingle ==
    /\ a_pc = "request"
    /\ a_response' = analyze_single(a_data)
    /\ a_pc' = "answered"
    /\ UNCHANGED a_data
    /\ UNCHANGED <<varsValidator, varsSOP, varsCategorizer, varsRag, varsStore, varsWeb, varsIndex, varsPipeline, varsKb, varsCsv>>

----------------------------------------------------------------------------
(* Claims about /analyze_single                                             *)

\* the body has no resolution, and with a resolution of sufficient length in its place
\* the incident passes the validator of the web application
C26_ValidButForResolution ==
    /\ ~truthy(a_data.resolution_notes)
    /\ validate_incident(WebConfig,
           [number |-> a_data.incident_number,
            short_description |-> a_data.short_description,
            description |-> a_data.description,
            category |-> dict_get(a_data, "category", CAT_general),
            resolution_notes |-> R_long]).is_valid

\* C26: POST /analyze_single with empty resolution_notes and otherwise valid fields is
\* not rejected with validation errors; it succeeds and builds the SOP from the
\* "Resolution pending..." placeholder text put in place of the resolution.
C26_ResolutionIsOptional ==
    (a_pc = "answered" /\ C26_ValidButForResolution) =>
        /\ a_response.status = 200
        /\ a_response.success
        /\ a_response.incident.resolution_notes = T_pending
        /\ a_response.sop.resolution_steps = _extract_resolution_steps(<<res_data(T_pending)>>)

\* a request without a resolution, valid otherwise, was answered with the validator's
\* insufficient_resolution error
C26_Reached ==
    /\ a_pc = "answered"
    /\ C26_ValidButForResolution
    /\ a_data.resolution_notes = <<>>
    /\ a_response.status = 400
    /\ \E e \in DOMAIN a_response.errors :
          a_response.errors[e].type = "insufficient_resolution"

----------------------------------------------------------------------------
(* CSVIncidentImporter                                                      *)

MaxRows == 3

\* _auto_detect_mapping: the incident fields in the order of the dict, each with the
\* substrings that select it
field_variations ==
    <<<<"number", {<<"t","i","c","k","e","t">>,
          <<"i","n","c","i","d","e","n","t">>,
          <<"i","n","c","i","d","e","n","t","_","n","u","m","b","e","r">>,
          <<"t","i","c","k","e","t","_","n","u","m","b","e","r">>,
          <<"i","d">>,
          <<"n","u","m","b","e","r">>}>>,
      <<"short_description", {<<"s","h","o","r","t","_","d","e","s","c","r","i","p","t","i","o","n">>,
          <<"s","u","m","m","a","r","y">>,
          <<"t","i","t","l","e">>,
          <<"s","u","b","j","e","c","t">>,
          <<"b","r","i","e","f">>}>>,
      <<"description", {<<"d","e","s","c","r","i","p","t","i","o","n">>,
          <<"d","e","t","a","i","l","s">>,
          <<"p","r","o","b","l","e","m">>,
          <<"p","r","o","b","l","e","m","_","s","t","a","t","e","m","e","n","t">>}>>,
      <<"category", {<<"c","a","t","e","g","o","r","y">>,
          <<"t","y","p","e">>,
          <<"i","n","c","i","d","e","n","t","_","t","y","p","e">>,
          <<"c","l","a","s","s","i","f","i","c","a","t","i","o","n">>}>>,
      <<"subcategory", {<<"s","u","b","c","a","t","e","g","o","r","y">>,
          <<"s","u","b","_","c","a","t","e","g","o","r","y">>,
          <<"s","u","b","t","y","p","e">>}>>,
      <<"priority", {<<"p","r","i","o","r","i","t","y">>,
          <<"s","e","v","e","r","i","t","y">>,
          <<"i","m","p","a","c","t">>}>>,
      <<"resolution_notes", {<<"r","e","s","o","l","u","t","i","o","n">>,
          <<"r","e","s","o","l","u","t","i","o","n","_","n","o","t","e","s">>,
          <<"s","o","l","u","t","i","o","n">>,
          <<"f","i","x">>,
          <<"f","i","x","_","d","e","s","c","r","i","p","t","i","o","n">>}>>,
      <<"assignment_group", {<<"a","s","s","i","g","n","m","e","n","t","_","g","r","o","u","p">>,
          <<"a","s","s","i","g","n","e","d","_","g","r","o","u","p">>,
          <<"t","e","a","m">>}>>,
      <<"assigned_to", {<<"a","s","s","i","g","n","e","d","_","t","o">>,
          <<"a","s","s","i","g","n","e","e">>,
          <<"o","w","n","e","r">>}>>,
      <<"status", {<<"s","t","a","t","u","s">>,
          <<"s","t","a","t","e">>,
          <<"i","n","c","i","d","e","n","t","_","s","t","a","t","e">>}>>,
      <<"sys_created_on", {<<"c","r","e","a","t","e","d","_","d","a","t","e">>,
          <<"c","r","e","a","t","e","d","_","o","n">>,
          <<"d","a","t","e","_","c","r","e","a","t","e","d">>,
          <<"s","y","s","_","c","r","e","a","t","e","d","_","o","n">>}>>,
      <<"resolved_at", {<<"r","e","s","o","l","v","e","d","_","d","a","t","e">>,
          <<"r","e","s","o","l","v","e","d","_","a","t">>,
          <<"d","a","t","e","_","r","e","s","o","l","v","e","d">>}>>>>

\* /get_csv_field_mapping: the column names suggested for each incident field
AdvertisedNames ==
    <<<<"number", {<<"T","i","c","k","e","t">>,
          <<"I","n","c","i","d","e","n","t">>,
          <<"I","n","c","i","d","e","n","t"," ","N","u","m","b","e","r">>,
          <<"T","i","c","k","e","t"," ","N","u","m","b","e","r">>,
          <<"I","D">>,
          <<"N","u","m","b","e","r">>}>>,
      <<"short_description", {<<"S","h","o","r","t"," ","D","e","s","c","r","i","p","t","i","o","n">>,
          <<"S","u","m","m","a","r","y">>,
          <<"T","i","t","l","e">>,
          <<"S","u","b","j","e","c","t">>,
          <<"B","r","i","e","f">>}>>,
      <<"description", {<<"D","e","s","c","r","i","p","t","i","o","n">>,
          <<"D","e","t","a","i","l","s">>,
          <<"P","r","o","b","l","e","m">>,
          <<"P","r","o","b","l","e","m"," ","S","t","a","t","e","m","e","n","t">>}>>,
      <<"category", {<<"C","a","t","e","g","o","r","y">>,
          <<"T","y","p","e">>,
          <<"I","n","c","i","d","e","n","t"," ","T","y","p","e">>,
          <<"C","l","a","s","s","i","f","i","c","a","t","i","o","n">>}>>,
      <<"priority", {<<"P","r","i","o","r","i","t","y">>,
          <<"S","e","v","e","r","i","t","y">>,
          <<"I","m","p","a","c","t">>}>>,
      <<"resolution_notes", {<<"R","e","s","o","l","u","t","i","o","n">>,
          <<"R","e","s","o","l","u","t","i","o","n"," ","N","o","t","e","s">>,
          <<"S","o","l","u","t","i","o","n">>,
          <<"F","i","x">>}>>,
      <<"assignment_group", {<<"A","s","s","i","g","n","m","e","n","t"," ","G","r","o","u","p">>,
          <<"A","s","s","i","g","n","e","d"," ","G","r","o","u","p">>,
          <<"T","e","a","m">>}>>,
      <<"assigned_to", {<<"A","s","s","i","g","n","e","d"," ","T","o">>,
          <<"A","s","s","i","g","n","e","e">>,
          <<"O","w","n","e","r">>}>>,
      <<"status", {<<"S","t","a","t","u","s">>,
          <<"S","t","a","t","e">>,
          <<"I","n","c","i","d","e","n","t"," ","S","t","a","t","e">>}>>,
      <<"sys_created_on", {<<"C","r","e","a","t","e","d"," ","D","a","t","e">>,
          <<"C","r","e","a","t","e","d"," ","O","n">>,
          <<"D","a","t","e"," ","C","r","e","a","t","e","d">>}>>,
      <<"resolved_at", {<<"R","e","s","o","l","v","e","d"," ","D","a","t","e">>,
          <<"R","e","s","o","l","v","e","d"," ","A","t">>,
          <<"D","a","t","e"," ","R","e","s","o","l","v","e","d">>}>>>>

\* /export_template: the header line of the sample CSV, and the field each column holds
TemplateHeaders ==
    <<<<"I","n","c","i","d","e","n","t"," ","N","u","m","b","e","r">>,
      <<"S","h","o","r","t"," ","D","e","s","c","r","i","p","t","i","o","n">>,
      <<"D","e","s","c","r","i","p","t","i","o","n">>,
      <<"C","a","t","e","g","o","r","y">>,
      <<"P","r","i","o","r","i","t","y">>,
      <<"S","t","a","t","u","s">>,
      <<"A","s","s","i","g","n","m","e","n","t"," ","G","r","o","u","p">>,
      <<"A","s","s","i","g","n","e","d"," ","T","o">>,
      <<"R","e","s","o","l","u","t","i","o","n"," ","N","o","t","e","s">>,
      <<"C","r","e","a","t","e","d"," ","D","a","t","e">>,
      <<"R","e","s","o","l","v","e","d"," ","D","a","t","e">>>>

TemplateFields ==
    <<"number", "short_description", "description", "category", "priority", "status", "assignment_group", "assigned_to", "resolution_notes", "sys_created_on", "resolved_at">>

str_upper(s) == [i \in 1..Len(s) |-> UpperChar(s[i])]

\* a dict of column name -> incident field is the set of its items
mapping_has(field_mapping, csv_column) == \E item \in field_mapping : item[1] = csv_column

mapping_get(field_mapping, csv_column) ==
    (CHOOSE item \in field_mapping : item[1] = csv_column)[2]

\* the positions of field_variations whose substrings occur in the header
matching_fields(header_lower) ==
    {i \in DOMAIN field_variations :
        \E var \in field_variations[i][2] : str_contains(header_lower, var)}

\* each header with header.lower().strip()
lowered(csv_headers) ==
    {<<csv_headers[g], str_strip(str_lower(csv_headers[g]))>> : g \in DOMAIN csv_headers}

\* the loop over field_variations breaks at the first field that matches; a header that
\* matches none gets no item
_auto_detect_mapping(csv_headers) ==
    UNION {{<<hit[1], field_variations[i][1]>> :
               i \in {k \in hit[2] : \A j \in hit[2] : k <= j}} :
           hit \in {<<header[1], matching_fields(header[2])>> :
                       header \in lowered(csv_headers)}}

IncidentFields == {field_variations[i][1] : i \in DOMAIN field_variations}

\* datetime.now().strftime('%Y%m%d%H%M%S') at the time of the import
Timestamp == <<"2","0","2","4","0","1","0","1","1","2","0","0","0","0">>

\* restval of csv.DictReader: a row shorter than the header line holds None
row_value(row, i) == IF i \in DOMAIN row THEN row[i] ELSE None

\* csv_value.strip() if csv_value else ""
cell(csv_value) == IF truthy(csv_value) THEN str_strip(csv_value) ELSE <<>>

\* the items the mapped columns of a row put into the incident dict; a key the dict
\* lacks is the value None. row.items() runs in header order, so the last column mapped
\* to a field is the one that stays.
mapped_columns(headers, row, field_mapping) ==
    LET columns(field) ==
            {i \in DOMAIN headers :
                mapping_has(field_mapping, headers[i])
                /\ mapping_get(field_mapping, headers[i]) = field}
        last(S) == CHOOSE i \in S : \A j \in S : j <= i
    IN [field \in IncidentFields |->
           IF columns(field) = {} THEN None
           ELSE cell(row_value(row, last(columns(field))))]

\* "Ensure required fields exist"
with_defaults(incident, row_number) ==
    LET number == IF ~truthy(incident["number"])
                  THEN <<"I","M","P","_">> \o <<Digits[row_number + 1]>> \o <<"_">> \o Timestamp
                  ELSE incident["number"]
        description == dict_get(incident, "description", <<>>)
        short_description ==
            IF incident["short_description"] = None
            THEN py_or(SubSeq(description, 1, IF Len(description) < 100 THEN Len(description) ELSE 100),
                       <<"I","m","p","o","r","t","e","d"," ","I","n","c","i","d","e","n","t"," ">> \o <<Digits[row_number + 1]>>)
            ELSE incident["short_description"]
    IN [incident EXCEPT !["number"] = number, !["short_description"] = short_description]

_convert_csv_row_to_incident(headers, row, field_mapping, row_number) ==
    CHOOSE incident \in {with_defaults(mapped, row_number) :
                            mapped \in {mapped_columns(headers, row, field_mapping)}} : TRUE

\* the messages of the importer
InvalidIncident(row_number, errors) ==
    [text |-> "Row {row_number}: Invalid incident - {errors}",
     row_number |-> row_number, errors |-> [e \in DOMAIN errors |-> errors[e].type]]

RowFailed(row_number, e) ==
    [text |-> "Row {row_number}: {e}", row_number |-> row_number, e |-> e]

FailedToRead(e) == [text |-> "Failed to read CSV file: {e}", e |-> e]

NoHeaders == [text |-> "CSV file is empty or has no headers"]

\* no exception left the loop
NoException == [text |-> "none"]

\* mutant: the continue is lost, a skipped row is appended as well
import_row_mut(validator, skip_invalid, incident, row_number, imported, errors, warnings) ==
    LET appended ==
            [imported |-> Append(imported, incident), errors |-> errors,
             warnings |-> warnings, raised |-> NoException]
    IN IF validator # NoValidator /\ ~validate_incident(validator, incident).is_valid
       THEN IF skip_invalid
            THEN [appended EXCEPT !.warnings = Append(warnings,
                      InvalidIncident(row_number, validate_incident(validator, incident).errors))]
            ELSE [appended EXCEPT !.imported = imported]
       ELSE appended

\* the body of the loop over the data rows, for the incident of one row: the lists after
\* it, and the exception that leaves the loop (None when the loop goes on). The
\* ValueError raised for an invalid row is raised inside the try of the row, whose
\* except clause records it once more and raises again.
import_row(validator, skip_invalid, incident, row_number, imported, errors, warnings) ==
    LET appended ==
            [imported |-> Append(imported, incident), errors |-> errors,
             warnings |-> warnings, raised |-> NoException]
        rejected(error_msg) ==
            IF skip_invalid
            THEN [imported |-> imported, errors |-> errors,
                  warnings |-> Append(warnings, error_msg), raised |-> NoException]
            ELSE [imported |-> imported,
                  errors |-> errors \o <<error_msg, RowFailed(row_number, error_msg)>>,
                  warnings |-> warnings,
                  raised |-> RowFailed(row_number, error_msg)]
        checked(validation_result) ==
            IF ~validation_result.is_valid
            THEN rejected(InvalidIncident(row_number, validation_result.errors))
            ELSE appended
    IN IF validator # NoValidator
       THEN checked(validate_incident(validator, incident))
       ELSE appended

\* the outcome of a call: the tuple returned, or the exception that reached the caller
Returned(imported, errors, warnings) ==
    [ended |-> "returned", imported |-> imported, errors |-> errors, warnings |-> warnings]

\* the header lines of the files with data rows
DataHeaders ==
    <<<<"I","n","c","i","d","e","n","t"," ","N","u","m","b","e","r">>,
      <<"S","h","o","r","t"," ","D","e","s","c","r","i","p","t","i","o","n">>,
      <<"D","e","s","c","r","i","p","t","i","o","n">>,
      <<"C","a","t","e","g","o","r","y">>,
      <<"R","e","s","o","l","u","t","i","o","n"," ","N","o","t","e","s">>>>

SnakeHeaders ==
    <<<<"n","u","m","b","e","r">>,
      <<"s","h","o","r","t","_","d","e","s","c","r","i","p","t","i","o","n">>,
      <<"d","e","s","c","r","i","p","t","i","o","n">>,
      <<"c","a","t","e","g","o","r","y">>,
      <<"r","e","s","o","l","u","t","i","o","n","_","n","o","t","e","s">>>>

\* the mapping a caller passes for DataHeaders
ExplicitMapping ==
    {<<DataHeaders[1], "number">>, <<DataHeaders[2], "short_description">>,
     <<DataHeaders[3], "description">>, <<DataHeaders[4], "category">>,
     <<DataHeaders[5], "resolution_notes">>}

\* data rows under five headers: a valid one, one with short texts, one without a
\* number, and one cut after its second value
RowPool ==
    {<<NUM_INC1, SD_ok, D_long, CAT_email, R_long>>,
     <<NUM_INC2, SD_ok, D_short, CAT_email, R_short>>,
     <<<<>>, SD_ok, D_long, CAT_email, R_long>>,
     <<NUM_INC3, SD_ok>>}

\* every advertised column name as listed, in lower case and in upper case
AdvertisedHeaders ==
    UNION {{name, str_lower(name), str_upper(name)} :
              name \in UNION {AdvertisedNames[i][2] : i \in DOMAIN AdvertisedNames}}

\* the files imported: data rows under five headers; the header line of the template
\* alone; one advertised column name alone; an empty file
CsvFiles ==
    [headers : {DataHeaders, SnakeHeaders}, rows : SeqUpTo(RowPool, MaxRows)]
    \cup [headers : {TemplateHeaders, <<>>} \cup {<<name>> : name \in AdvertisedHeaders},
          rows : {<<>>}]

InitCsv ==
    /\ ValidatorIdle
    /\ SOPIdle
    /\ CategorizerIdle
    /\ RagIdle
    /\ StoreIdle
    /\ WebIdle
    /\ IndexIdle
    /\ PipelineIdle
    /\ KbIdle
    /\ SingleIdle
    /\ x_validator \in {WebConfig, NoValidator}
    /\ \E file \in CsvFiles :
          /\ x_headers = file.headers
          /\ x_rows = file.rows
    /\ x_field_mapping \in {NoFieldMapping, [given |-> TRUE, items |-> ExplicitMapping]}
    /\ x_skip_invalid \in BOOLEAN
    /\ x_mapping = {}
    /\ x_row_number = 0
    /\ x_imported = <<>>
    /\ x_errors = <<>>
    /\ x_warnings = <<>>
    /\ x_returned = NoImport
    /\ x_pc = "open"

\* import_from_csv up to the loop: the lists are reset, the header line is read and the
\* mapping is chosen; a file without a header line ends the call in the outer except
ImportOpen ==
    /\ x_pc = "open"
    /\ IF x_headers = <<>>
       THEN /\ x_errors' = <<FailedToRead(NoHeaders)>>
            /\ x_returned' = Returned(<<>>, x_errors', <<>>)
            /\ x_pc' = "returned"
            /\ UNCHANGED <<x_mapping, x_row_number>>
       ELSE /\ x_mapping' = IF x_field_mapping = NoFieldMapping
                            THEN _auto_detect_mapping(x_headers)
                            ELSE x_field_mapping.items
            /\ x_row_number' = 1
            /\ x_errors' = <<>>
            /\ x_pc' = "rows"
            /\ UNCHANGED x_returned
    /\ x_imported' = <<>>
    /\ x_warnings' = <<>>
    /\ UNCHANGED <<x_validator, x_headers, x_rows, x_field_mapping, x_skip_invalid>>
    /\ UNCHANGED <<varsValidator, varsSOP, varsCategorizer, varsRag, varsStore, varsWeb, varsIndex, varsPipeline, varsKb, varsSingle>>

\* one pass of the loop over the data rows; an exception that leaves the loop is caught
\* by the outer except, which records it and returns an empty list of incidents
ImportRow ==
    /\ x_pc = "rows"
    /\ x_row_number <= Len(x_rows)
    /\ x_row_number' = x_row_number + 1
    /\ \E out \in {import_row(x_validator, x_skip_invalid, incident, x_row_number',
                              x_imported, x_errors, x_warnings) :
                      incident \in {_convert_csv_row_to_incident(x_headers, x_rows[x_row_number],
                                                                 x_mapping, x_row_number')}} :
          /\ x_imported' = out.imported
          /\ x_warnings' = out.warnings
          /\ IF out.raised = NoException
             THEN /\ x_errors' = out.errors
                  /\ UNCHANGED <<x_returned, x_pc>>
             ELSE /\ x_errors' = Append(out.errors, FailedToRead(out.raised))
                  /\ x_returned' = Returned(<<>>, x_errors', x_warnings')
                  /\ x_pc' = "returned"
    /\ UNCHANGED <<x_validator, x_headers, x_rows, x_field_mapping, x_skip_invalid, x_mapping>>
    /\ UNCHANGED <<varsValidator, varsSOP, varsCategorizer, varsRag, varsStore, varsWeb, varsIndex, varsPipeline, varsKb, varsSingle>>

\* the return after the last data row
ImportReturn ==
    /\ x_pc = "rows"
    /\ x_row_number > Len(x_rows)
    /\ x_returned' = Returned(x_imported, x_errors, x_warnings)
    /\ x_pc' = "returned"
    /\ UNCHANGED <<x_validator, x_headers, x_rows, x_field_mapping, x_skip_invalid, x_mapping,
                   x_row_number, x_imported, x_errors, x_warnings>>
    /\ UNCHANGED <<varsValidator, varsSOP, varsCategorizer, varsRag, varsStore, varsWeb, varsIndex, varsPipeline, varsKb, varsSingle>>

----------------------------------------------------------------------------
(* Claims about the CSV import                                              *)

\* the incident fields for which the application advertises the column name, whatever
\* its letter case: the names of /get_csv_field_mapping and the template's headers
C27_AdvertisedFor(header) ==
    {AdvertisedNames[i][1] : i \in {k \in DOMAIN AdvertisedNames :
        \E name \in AdvertisedNames[k][2] : str_lower(name) = str_lower(header)}}
    \cup {TemplateFields[i] : i \in {k \in DOMAIN TemplateHeaders :
             str_lower(TemplateHeaders[k]) = str_lower(header)}}

\* the header line has been read and the mapping was detected from it
C27_Detected == x_pc \in {"rows", "returned"} /\ x_headers # <<>> /\ x_field_mapping = NoFieldMapping

\* C27: header auto-detection maps every column name the application advertises for an
\* incident field (the names of /get_csv_field_mapping and the headers of the exported
\* template, in any letter case) to that field, and maps no two headers of the
\* template to the same incident field.
C27_AdvertisedNamesAreDetected ==
    C27_Detected =>
        /\ \A h \in DOMAIN x_headers : \A field \in C27_AdvertisedFor(x_headers[h]) :
              <<x_headers[h], field>> \in x_mapping
        /\ x_headers = TemplateHeaders =>
              \A a \in x_mapping : \A b \in x_mapping : a[2] = b[2] => a[1] = b[1]

\* the template's header line was read: "Short Description" and "Description" both went
\* to description, and "Assigned To" went nowhere
C27_Reached ==
    /\ C27_Detected
    /\ x_pc = "returned"
    /\ x_headers = TemplateHeaders
    /\ <<TemplateHeaders[2], "description">> \in x_mapping
    /\ <<TemplateHeaders[3], "description">> \in x_mapping
    /\ ~mapping_has(x_mapping, TemplateHeaders[8])


\* the incident the importer builds from data row k of the file
C24_Incident(k) == _convert_csv_row_to_incident(x_headers, x_rows[k], x_mapping, k + 1)

\* data row k passes the validation of the importer
C24_Valid(k) ==
    x_validator = NoValidator \/ validate_incident(x_validator, C24_Incident(k)).is_valid

\* C24: with skip_invalid=True a bad row never aborts the batch: every data row of a
\* readable CSV is either appended to the imported incidents or produces exactly one
\* warning, so len(imported) + len(warnings) is the number of data rows, the errors
\* list stays empty, and the rows that follow an invalid row are still imported.
C24_SkipInvalidNeverAborts ==
    (x_skip_invalid /\ x_headers # <<>>) =>
        /\ x_pc = "rows" =>
              /\ Len(x_imported) + Len(x_warnings) = x_row_number - 1
              /\ x_errors = <<>>
        /\ x_pc = "returned" =>
              /\ x_returned.ended = "returned"
              /\ Len(x_returned.imported) + Len(x_returned.warnings) = Len(x_rows)
              /\ x_returned.errors = <<>>
              /\ x_returned.imported =
                    [i \in 1..Len(x_returned.imported) |->
                        C24_Incident(CHOOSE k \in DOMAIN x_rows :
                            /\ C24_Valid(k)
                            /\ Cardinality({j \in 1..k : C24_Valid(j)}) = i)]
              /\ \A k \in DOMAIN x_rows :
                    C24_Valid(k) <=> \E i \in DOMAIN x_returned.imported :
                                        x_returned.imported[i] = C24_Incident(k)

\* three data rows were imported with skip_invalid=True: the first was invalid and left
\* one warning, the second and third were imported after it
C24_Witness ==
    /\ x_pc = "returned"
    /\ x_skip_invalid
    /\ x_validator = WebConfig
    /\ Len(x_rows) = 3
    /\ ~C24_Valid(1) /\ C24_Valid(2) /\ C24_Valid(3)
    /\ Len(x_returned.warnings) = 1
    /\ x_returned.warnings[1].row_number = 2
    /\ x_returned.imported = <<C24_Incident(2), C24_Incident(3)>>
    /\ x_returned.errors = <<>>


\* an import with skip_invalid=False has ended after it met an invalid row
C25_MetInvalidRow ==
    /\ x_pc = "returned"
    /\ ~x_skip_invalid
    /\ x_headers # <<>>
    /\ \E k \in DOMAIN x_rows : ~C24_Valid(k)

\* C25: import_from_csv called with skip_invalid=False raises an error to its caller
\* when it meets an invalid row, instead of returning normally.
C25_InvalidRowIsRaised ==
    C25_MetInvalidRow => x_returned.ended = "raised"

\* a valid row followed by an invalid one, skip_invalid=False: the call returned an empty
\* list of incidents and three error messages for the one bad row
C25_Reached ==
    /\ C25_MetInvalidRow
    /\ C24_Valid(1) /\ ~C24_Valid(2)
    /\ x_returned.ended = "returned"
    /\ x_returned.imported = <<>>
    /\ x_imported = <<C24_Incident(1)>>
    /\ Len(x_returned.errors) = 3
    /\ x_returned.errors[3] = FailedToRead(x_returned.errors[2])
    /\ x_returned.errors[2] = RowFailed(3, x_returned.errors[1])

vars == <<varsValidator, varsSOP, varsCategorizer, varsRag, varsStore, varsWeb, varsIndex, varsPipeline, varsKb, varsSingle, varsCsv>>

NextValidator == ValidateIncident \/ ValidateIncidents

SpecValidator == InitValidator /\ [][NextValidator]_vars

NextSOP == GenerateSop \/ ExtractSteps \/ ExtractStepsAgain \/ ConvertToImperative

SpecSOP == InitSOP /\ [][NextSOP]_vars

NextCategorizer == CategorizeIncidents \/ AnalyzeCluster

SpecCategorizer == InitCategorizer /\ [][NextCategorizer]_vars

NextRag ==
    \/ LoadKnowledgeBase
    \/ FindSimilarIncidents
    \/ FindSimilarIncidentsHigher
    \/ SuggestResolution
    \/ AddToKnowledgeBase

SpecRag == InitRag /\ [][NextRag]_vars

NextStore ==
    InsertIncident \/ InsertManyIncidents \/ AddIncident \/ AddIncidentsBatch \/ AddToJsonFile

SpecStore == InitStore /\ [][NextStore]_vars

NextWeb ==
    \E t \in Threads :
        \/ StartRequest(t)
        \/ CheckCategorizer(t)
        \/ ConstructCategorizer(t)
        \/ AssignCategorizer(t)
        \/ ReturnCategorizer(t)
        \/ CheckResolutionFinder(t)
        \/ ConstructResolutionFinder(t)
        \/ ReloadResolutionFinder(t)

SpecWeb == InitWeb /\ [][NextWeb]_vars

NextIndex ==
    \/ LoadAssignKnowledgeBase
    \/ LoadAssignEmbeddings
    \/ SearchCheck
    \/ SearchSimilarities
    \/ SearchCollect
    \/ SearchReturn

SpecIndex == InitIndex /\ [][NextIndex]_vars

NextPipeline ==
    \/ PipelineFetch
    \/ PipelineValidate
    \/ PipelineCategorize
    \/ PipelineGenerateSops

SpecPipeline == InitPipeline /\ [][NextPipeline]_vars

NextKb == KbLoad \/ KbAdd \/ KbFind

SpecKb == InitKb /\ [][NextKb]_vars

NextSingle == AnalyzeSingle

SpecSingle == InitSingle /\ [][NextSingle]_vars

NextCsv == ImportOpen \/ ImportRow \/ ImportReturn

SpecCsv == InitCsv /\ [][NextCsv]_vars

====
